---- MODULE Spec2Model ----
(***************************************************************************)
(* redis-tui: the RESP codec (internal/redis/client.go) and the bubbletea  *)
(* session controller (internal/tui/model.go, first version in the file,   *)
(* started by cmd/redis-tui/main.go with the -host flag).                  *)
(*                                                                         *)
(* Go strings and wire bytes are sequences of bytes; a byte is written as  *)
(* a one-character string, carriage return and line feed as CR and LF.     *)
(***************************************************************************)
EXTENDS Integers, Sequences, FiniteSets, TLC

VARIABLES
  m,        \* the tui.Model value held by the bubbletea program
  tasks,    \* tea.Cmd goroutines of sendRedisCmd / scanRedisKeys still running
  dials,    \* number of connectToRedis goroutines still running
  timers,   \* number of waitForNextConnection goroutines still running
  conns,    \* per TCP connection: bytes sent by the server and not yet read, end of stream
  nconn,    \* number of connections the server has accepted so far
  running,  \* "running", "quit" (tea.Quit) or "crashed" (a Go panic)
  last,     \* the message most recently handled by Update
  issued,   \* number of commands started by key presses so far
  server,   \* the repertoire of replies of the server the program talks to
  stream,   \* codec harness: bytes in front of a bufio.Reader
  atEOF,    \* codec harness: the stream ends after those bytes
  decoded   \* codec harness: outcomes of the ReadResp calls made so far

vars == <<m, tasks, dials, timers, conns, nconn, running, last, issued, server, stream, atEOF, decoded>>

sessionVars == <<m, tasks, dials, timers, conns, nconn, running, last, issued>>
codecVars == <<server, stream, atEOF, decoded>>

----------------------------------------------------------------------------
(* Bounds of the model *)

MaxInput == 1   \* longest text typed into the text input
MaxTasks == 2   \* key presses start no further command beyond this many running
MaxIssued == 2  \* commands the key presses of one session start
MaxConns == 2   \* connections the server accepts before refusing for good
MaxRx == 25     \* the server sends a reply only if the unread bytes stay within this
MaxDecodes == 2 \* ReadResp calls made on one stream by the codec harness
MaxKeys == 1    \* keys scanRedisKeys holds when the server stops sending further batches

----------------------------------------------------------------------------
(* Bytes and strings *)

CR == "CR"
LF == "LF"
CRLF == <<CR, LF>>

Digits == <<"0", "1", "2", "3", "4", "5", "6", "7", "8", "9">>

IsDigit(c) == \E i \in 1..10 : Digits[i] = c

DigitVal(c) == (CHOOSE i \in 1..10 : Digits[i] = c) - 1

SetMin(S) == CHOOSE x \in S : \A y \in S : x <= y
SetMax(S) == CHOOSE x \in S : \A y \in S : x >= y

\* unicode.IsSpace restricted to the bytes of the model
IsSpace(c) == c \in {" ", CR, LF, "TAB"}

\* strings.TrimSpace
TrimSpace(s) ==
  LET keep == {i \in 1..Len(s) : ~IsSpace(s[i])}
  IN  IF keep = {} THEN <<>> ELSE SubSeq(s, SetMin(keep), SetMax(keep))

\* strconv.Itoa
RECURSIVE ItoaNat(_)
ItoaNat(n) ==
  IF n < 10 THEN <<Digits[n + 1]>>
  ELSE ItoaNat(n \div 10) \o <<Digits[(n % 10) + 1]>>

Itoa(n) == IF n < 0 THEN <<"-">> \o ItoaNat(0 - n) ELSE ItoaNat(n)

\* a conversion that takes every text that is no number for 0
AtoiLenient(s) ==
  LET signed == s # <<>> /\ Head(s) \in {"+", "-"}
      ds == IF signed THEN Tail(s) ELSE s
      val[i \in 0..Len(ds)] == IF i = 0 THEN 0 ELSE 10 * val[i - 1] + DigitVal(ds[i])
  IN  IF ds = <<>> \/ \E i \in 1..Len(ds) : ~IsDigit(ds[i])
      THEN [ok |-> TRUE, n |-> 0]
      ELSE [ok |-> TRUE,
            n |-> IF signed /\ Head(s) = "-" THEN 0 - val[Len(ds)] ELSE val[Len(ds)]]

\* strconv.Atoi: an optional sign followed by one or more decimal digits
Atoi(s) ==
  LET signed == s # <<>> /\ Head(s) \in {"+", "-"}
      ds == IF signed THEN Tail(s) ELSE s
      val[i \in 0..Len(ds)] == IF i = 0 THEN 0 ELSE 10 * val[i - 1] + DigitVal(ds[i])
  IN  IF ds = <<>> \/ \E i \in 1..Len(ds) : ~IsDigit(ds[i])
      THEN [ok |-> FALSE, n |-> 0]
      ELSE [ok |-> TRUE,
            n |-> IF signed /\ Head(s) = "-" THEN 0 - val[Len(ds)] ELSE val[Len(ds)]]

----------------------------------------------------------------------------
(* Go values of type any as ReadResp and the tasks produce them, and errors *)

\* t is the dynamic type; no code path of the program produces an int
NilV == [t |-> "nil", s |-> <<>>, a |-> <<>>, n |-> 0]           \* untyped nil
StrV(s) == [t |-> "string", s |-> s, a |-> <<>>, n |-> 0]        \* string
ArrV(a) == [t |-> "[]any", s |-> <<>>, a |-> a, n |-> 0]         \* []any
ItemsV(a) == [t |-> "[]list.Item", s |-> <<>>, a |-> a, n |-> 0] \* []list.Item

\* the values of the strings of a sequence
StrVs(seq) == [i \in 1..Len(seq) |-> StrV(seq[i])]

NoErr == [kind |-> "", arg |-> <<>>]
ErrEOF == [kind |-> "EOF", arg |-> <<>>]                      \* io.EOF
ErrUnexpectedEOF == [kind |-> "UnexpectedEOF", arg |-> <<>>]  \* io.ErrUnexpectedEOF
ErrNum(s) == [kind |-> "NumError", arg |-> s]                 \* *strconv.NumError
ErrNet == [kind |-> "NetError", arg |-> <<>>]                 \* *net.OpError
ErrNoConn == [kind |-> "NoConn", arg |-> <<>>]                \* fmt.Errorf("no connection to Redis")

NilText == <<"(", "n", "i", "l", ")">>

----------------------------------------------------------------------------
(* internal/redis/client.go *)

\* the two bytes of the UTF-8 encoding of one character (U+00E9)
Eacute == <<"C3", "A9">>

\* a variant of BulkBytes that counts characters, not bytes
BulkBytesRunes(s) ==
  <<"$">> \o Itoa(Len(SelectSeq(s, LAMBDA c : c # "A9"))) \o CRLF \o s \o CRLF

\* RedisCmd.ToBytes; name and args are byte strings
BulkBytes(s) == <<"$">> \o Itoa(Len(s)) \o CRLF \o s \o CRLF

RECURSIVE ArgsBytes(_)
ArgsBytes(args) ==
  IF args = <<>> THEN <<>> ELSE BulkBytes(Head(args)) \o ArgsBytes(Tail(args))

ToBytes(name, args) ==
  <<"*">> \o Itoa(Len(args) + 1) \o CRLF \o BulkBytes(name) \o ArgsBytes(args)

\* Outcomes of a read: st is "ok" (v, bytes left rest), "err" (err), "block"
\* (the stream is open and holds too few bytes) or "panic"
ROk(v, rest) == [st |-> "ok", v |-> v, err |-> NoErr, rest |-> rest]
RErr(e, rest) == [st |-> "err", v |-> StrV(<<>>), err |-> e, rest |-> rest]
RBlock == [st |-> "block", v |-> NilV, err |-> NoErr, rest |-> <<>>]
RPanic == [st |-> "panic", v |-> NilV, err |-> NoErr, rest |-> <<>>]

\* bufio.Reader.ReadString('\n'): the line with its delimiter, or io.EOF
ReadString(buf, eof) ==
  LET at == {i \in 1..Len(buf) : buf[i] = LF}
  IN  IF at # {}
      THEN ROk(StrV(SubSeq(buf, 1, SetMin(at))), SubSeq(buf, SetMin(at) + 1, Len(buf)))
      ELSE IF eof THEN RErr(ErrEOF, <<>>) ELSE RBlock

\* io.ReadFull(reader, make([]byte, n)) for n >= 0
ReadFull(buf, eof, n) ==
  IF Len(buf) >= n THEN ROk(StrV(SubSeq(buf, 1, n)), SubSeq(buf, n + 1, Len(buf)))
  ELSE IF ~eof THEN RBlock
  ELSE IF buf = <<>> THEN RErr(ErrEOF, <<>>)
  ELSE RErr(ErrUnexpectedEOF, <<>>)

RECURSIVE ReadResp(_, _)
RECURSIVE ReadItems(_, _, _, _)

\* the loop of ReadResp's '*' case: n more items, items read so far in acc
ReadItems(buf, eof, n, acc) ==
  IF n <= 0 THEN ROk(ArrV(acc), buf)
  ELSE LET item == ReadResp(buf, eof)
       IN  IF item.st # "ok" THEN item
           ELSE ReadItems(item.rest, eof, n - 1, Append(acc, item.v))

ReadBulk(buf, eof) ==
  LET lengthStr == ReadString(buf, eof)
      lengthNum == Atoi(TrimSpace(lengthStr.v.s))
      data == ReadFull(lengthStr.rest, eof, lengthNum.n)
      trailer == ReadString(data.rest, eof)
  IN  IF lengthStr.st # "ok" THEN lengthStr
      ELSE IF ~lengthNum.ok THEN RErr(ErrNum(TrimSpace(lengthStr.v.s)), lengthStr.rest)
      ELSE IF lengthNum.n = -1 THEN ROk(StrV(NilText), lengthStr.rest)
      ELSE IF lengthNum.n < 0 THEN RPanic
      ELSE IF data.st # "ok" THEN data
      ELSE IF trailer.st # "ok" THEN trailer
      ELSE ROk(data.v, trailer.rest)

ReadArray(buf, eof) ==
  LET lengthStr == ReadString(buf, eof)
      lengthNum == Atoi(TrimSpace(lengthStr.v.s))
  IN  IF lengthStr.st # "ok" THEN lengthStr
      ELSE IF ~lengthNum.ok THEN RErr(ErrNum(TrimSpace(lengthStr.v.s)), lengthStr.rest)
      ELSE IF lengthNum.n = -1 THEN ROk(StrV(NilText), lengthStr.rest)
      ELSE ReadItems(lengthStr.rest, eof, lengthNum.n, <<>>)

ReadStatus(buf, eof) ==
  LET msg == ReadString(buf, eof)
  IN  IF msg.st # "ok" THEN msg ELSE ROk(StrV(TrimSpace(msg.v.s)), msg.rest)

ReadResp(buf, eof) ==
  IF buf = <<>> THEN (IF eof THEN RErr(ErrEOF, <<>>) ELSE RBlock)
  ELSE LET prefix == Head(buf)
       IN  CASE prefix \in {"+", "-"} -> ReadStatus(Tail(buf), eof)
             [] prefix = "$" -> ReadBulk(Tail(buf), eof)
             [] prefix = "*" -> ReadArray(Tail(buf), eof)
             [] OTHER -> ROk(StrV(<<>>), Tail(buf))

----------------------------------------------------------------------------
(* internal/tui/model.go: messages, commands and the Model *)

ListItem(index, title, desc) == [index |-> index, title |-> title, desc |-> desc]

\* tea.Cmd values returned by Update: c is "none" (nil), "quit" (tea.Quit),
\* "connect" (connectToRedis), "wait" (waitForNextConnection), "send"
\* (sendRedisCmd with the connection and command captured) or "scan" (scanRedisKeys)
NoCmd == [c |-> "none", conn |-> 0, Name |-> "", Args |-> <<>>]
QuitCmd == [c |-> "quit", conn |-> 0, Name |-> "", Args |-> <<>>]
waitForNextConnection == [c |-> "wait", conn |-> 0, Name |-> "", Args |-> <<>>]
connectToRedis == [c |-> "connect", conn |-> 0, Name |-> "", Args |-> <<>>]
scanRedisKeys(conn) == [c |-> "scan", conn |-> conn, Name |-> "SCAN", Args |-> <<>>]
sendRedisCmd(conn, name, args) == [c |-> "send", conn |-> conn, Name |-> name, Args |-> args]

\* tea.Msg values: tea.KeyMsg (sel is the position of the list cursor, 0 when
\* the list is empty), TickMsg, RedisConnectionMsg, RedisResultMsg
KeyMsg(k, sel) ==
  [type |-> "key", key |-> k, sel |-> sel, Conn |-> 0, Result |-> NilV, Error |-> NoErr]
TickMsg ==
  [type |-> "tick", key |-> "", sel |-> 0, Conn |-> 0, Result |-> NilV, Error |-> NoErr]
RedisConnectionMsg(conn, err) ==
  [type |-> "conn", key |-> "", sel |-> 0, Conn |-> conn, Result |-> NilV, Error |-> err]
RedisResultMsg(result, err) ==
  [type |-> "result", key |-> "", sel |-> 0, Conn |-> 0, Result |-> result, Error |-> err]

\* the menu built by run()
MenuItems == <<"SET", "GET", "HSET", "HGET", "EXPLORE">>

\* the Model literal of run(): CurrentState StateMenu, every other field zero
initialModel ==
  [CurrentState |-> "Menu", PreviousState |-> "Menu",
   FieldsList |-> <<>>, KeyList |-> <<>>,
   Input |-> <<>>, Output |-> <<>>,
   ActiveKey |-> <<>>, ActiveField |-> <<>>, ActiveIndex |-> 0, ActiveValue |-> <<>>,
   SelectedOp |-> "", Conn |-> 0]

\* a return of Update: the model and the command
Ret(mm, cmd) == [m |-> mm, cmd |-> cmd]

\* without the guard on m.CurrentState != StateLoading
switchToLoadingAndExecuteUnguarded(mm, cmd) ==
  Ret([mm EXCEPT !.PreviousState = mm.CurrentState, !.CurrentState = "Loading"], cmd)

switchToLoadingAndExecute(mm, cmd) ==
  Ret([mm EXCEPT !.PreviousState = IF mm.CurrentState # "Loading" THEN mm.CurrentState ELSE @,
                 !.CurrentState = "Loading"],
      cmd)

\* error.Error()
ErrorText(e) ==
  CASE e.kind = "EOF" -> <<"E", "O", "F">>
    [] e.kind = "UnexpectedEOF" ->
         <<"u", "n", "e", "x", "p", "e", "c", "t", "e", "d", " ", "E", "O", "F">>
    [] e.kind = "NumError" ->
         <<"s", "t", "r", "c", "o", "n", "v", ".", "A", "t", "o", "i", ":", " ",
           "p", "a", "r", "s", "i", "n", "g", " ", "\"">> \o e.arg \o
         <<"\"", ":", " ", "i", "n", "v", "a", "l", "i", "d", " ", "s", "y", "n", "t", "a", "x">>
    [] e.kind = "NoConn" ->
         <<"n", "o", " ", "c", "o", "n", "n", "e", "c", "t", "i", "o", "n", " ",
           "t", "o", " ", "R", "e", "d", "i", "s">>
    [] OTHER -> <<"n", "e", "t", "w", "o", "r", "k", " ", "e", "r", "r", "o", "r">>

\* msg.Error == io.EOF || errors.As(msg.Error, &netError)
IsTransport(e) == e.kind = "EOF" \/ e.kind = "NetError"

UnexpectedResponse ==
  <<"U", "n", "e", "x", "p", "e", "c", "t", "e", "d", " ",
    "r", "e", "s", "p", "o", "n", "s", "e">>

TypeString == <<"s", "t", "r", "i", "n", "g">>
TypeHash == <<"h", "a", "s", "h">>
TypeList == <<"l", "i", "s", "t">>
TypeSet == <<"s", "e", "t">>
TypeZset == <<"z", "s", "e", "t">>

Positions(a) == [i \in 1..Len(a) |-> i]

\* case "HKEYS": the strings of the reply, in order
HashItems(a) ==
  LET strs == SelectSeq(a, LAMBDA v : v.t = "string")
  IN  [i \in 1..Len(strs) |->
         ListItem(0, strs[i].s, <<"H", "a", "s", "h", " ", "F", "i", "e", "l", "d">>)]

\* case "LRANGE", "SMEMBERS": the strings of the reply with their reply positions
IndexedItems(a) ==
  LET at == SelectSeq(Positions(a), LAMBDA i : a[i].t = "string")
  IN  [j \in 1..Len(at) |->
         ListItem(at[j] - 1, a[at[j]].s,
                  <<"I", "n", "d", "e", "x", ":", " ">> \o Itoa(at[j] - 1))]

\* a variant of the ZRANGE case that lists complete pairs alone
ScoredItemsPaired(a) ==
  LET at == SelectSeq(Positions(a),
                      LAMBDA i : i % 2 = 1 /\ i + 1 <= Len(a) /\ a[i].t = "string")
  IN  [j \in 1..Len(at) |->
         ListItem(0, a[at[j]].s,
                  <<"S", "c", "o", "r", "e", ":", " ">> \o
                    (IF a[at[j] + 1].t = "string" THEN a[at[j] + 1].s
                     ELSE <<"u", "n", "k", "n", "o", "w", "n">>))]

\* case "ZRANGE": members at even reply positions, scores after them
ScoredItems(a) ==
  LET at == SelectSeq(Positions(a), LAMBDA i : i % 2 = 1 /\ a[i].t = "string")
      score(i) == IF i + 1 <= Len(a) /\ a[i + 1].t = "string"
                  THEN a[i + 1].s
                  ELSE <<"u", "n", "k", "n", "o", "w", "n">>
  IN  [j \in 1..Len(at) |->
         ListItem(0, a[at[j]].s, <<"S", "c", "o", "r", "e", ":", " ">> \o score(at[j]))]

\* A step of Update's first switch either returns (ret) or falls through to
\* the per-state switch with the model it has changed
Returns(mm, cmd) == [ret |-> TRUE, m |-> mm, cmd |-> cmd]
Falls(mm) == [ret |-> FALSE, m |-> mm, cmd |-> NoCmd]
Returned(r) == [ret |-> TRUE, m |-> r.m, cmd |-> r.cmd]

\* a variant of the CHECK_TYPE case that reads every type of key with GET
OnCheckTypeAllGet(mm, result) ==
  IF result.t = "string"
  THEN Returned(switchToLoadingAndExecute([mm EXCEPT !.SelectedOp = "GET"],
                  sendRedisCmd(mm.Conn, "GET", <<mm.ActiveKey>>)))
  ELSE Falls([mm EXCEPT !.Output = UnexpectedResponse])

\* case "CHECK_TYPE"
OnCheckType(mm, result) ==
  IF result.t = "string"
  THEN CASE result.s = TypeString ->
              Returned(switchToLoadingAndExecute([mm EXCEPT !.SelectedOp = "GET"],
                         sendRedisCmd(mm.Conn, "GET", <<mm.ActiveKey>>)))
         [] result.s = TypeHash ->
              Returned(switchToLoadingAndExecute([mm EXCEPT !.SelectedOp = "HKEYS"],
                         sendRedisCmd(mm.Conn, "HKEYS", <<mm.ActiveKey>>)))
         [] result.s = TypeList ->
              Returned(switchToLoadingAndExecute([mm EXCEPT !.SelectedOp = "LRANGE"],
                         sendRedisCmd(mm.Conn, "LRANGE", <<mm.ActiveKey, <<"0">>, <<"-", "1">>>>)))
         [] result.s = TypeSet ->
              Returned(switchToLoadingAndExecute([mm EXCEPT !.SelectedOp = "SMEMBERS"],
                         sendRedisCmd(mm.Conn, "SMEMBERS", <<mm.ActiveKey>>)))
         [] result.s = TypeZset ->
              Returned(switchToLoadingAndExecute([mm EXCEPT !.SelectedOp = "ZRANGE"],
                         sendRedisCmd(mm.Conn, "ZRANGE",
                           <<mm.ActiveKey, <<"0">>, <<"-", "1">>,
                             <<"W", "I", "T", "H", "S", "C", "O", "R", "E", "S">>>>)))
         [] OTHER -> Falls(mm)
  ELSE Falls([mm EXCEPT !.Output = UnexpectedResponse])

\* case "SET", "LSET"
OnStatus(mm, result) ==
  Falls([mm EXCEPT !.Output = IF result.t = "string" THEN result.s ELSE UnexpectedResponse,
                   !.CurrentState = "Output"])

\* case "DELETE", "HSET", "RPUSH": msg.Result.(int)
OnInteger(mm, result) ==
  Falls([mm EXCEPT !.Output = IF result.t = "int" THEN Itoa(result.n) ELSE UnexpectedResponse,
                   !.CurrentState = "Output"])

\* case "DEL", "HDEL", "LREM": the message and the refresh command
OnDeleted(mm) ==
  CASE mm.SelectedOp = "DEL" ->
         Returned(switchToLoadingAndExecute(
           [mm EXCEPT !.Output = <<"D", "e", "l", "e", "t", "e", "d", " ", "K", "e", "y", ":", " ">>
                                   \o mm.ActiveKey,
                      !.SelectedOp = "EXPLORE"],
           scanRedisKeys(mm.Conn)))
    [] mm.SelectedOp = "HDEL" ->
         Returned(switchToLoadingAndExecute(
           [mm EXCEPT !.Output = <<"D", "e", "l", "e", "t", "e", "d", " ", "H", "a", "s", "h", " ",
                                    "K", "e", "y", ":", " ">> \o mm.ActiveKey,
                      !.SelectedOp = "HKEYS"],
           sendRedisCmd(mm.Conn, "HKEYS", <<mm.ActiveKey>>)))
    [] OTHER ->
         Returned(switchToLoadingAndExecute(
           [mm EXCEPT !.Output = <<"R", "e", "m", "o", "v", "e", "d", " ", "e", "l", "e", "m", "e",
                                    "n", "t", " ", "f", "r", "o", "m", " ", "l", "i", "s", "t",
                                    ":", " ">> \o mm.ActiveKey,
                      !.SelectedOp = "LRANGE"],
           sendRedisCmd(mm.Conn, "LRANGE", <<mm.ActiveKey, <<"0">>, <<"-", "1">>>>)))

\* switch m.SelectedOp of the RedisResultMsg case
Dispatch(mm, result) ==
  CASE mm.SelectedOp \in {"GET", "HGET"} ->
         IF result.t = "string"
         THEN Falls([mm EXCEPT !.Output = result.s, !.CurrentState = "Output"])
         ELSE Falls(mm)
    [] mm.SelectedOp = "HKEYS" ->
         IF result.t = "[]any"
         THEN Falls([mm EXCEPT !.FieldsList = HashItems(result.a),
                               !.CurrentState = "FieldSelect"])
         ELSE Falls(mm)
    [] mm.SelectedOp = "EXPLORE" ->
         IF result.t = "[]list.Item"
         THEN Falls([mm EXCEPT !.KeyList = result.a, !.CurrentState = "Browser"])
         ELSE Falls(mm)
    [] mm.SelectedOp \in {"LRANGE", "SMEMBERS"} ->
         IF result.t = "[]any"
         THEN Falls([mm EXCEPT !.FieldsList = IndexedItems(result.a),
                               !.SelectedOp = "EXPLORE_LIST",
                               !.CurrentState = "FieldSelect"])
         ELSE Falls(mm)
    [] mm.SelectedOp = "ZRANGE" ->
         IF result.t = "[]any"
         THEN Falls([mm EXCEPT !.FieldsList = ScoredItems(result.a),
                               !.SelectedOp = "EXPLORE_LIST",
                               !.CurrentState = "FieldSelect"])
         ELSE Falls(mm)
    [] mm.SelectedOp = "CHECK_TYPE" -> OnCheckType(mm, result)
    [] mm.SelectedOp \in {"SET", "LSET"} -> OnStatus(mm, result)
    [] mm.SelectedOp \in {"DEL", "HDEL", "LREM"} -> OnDeleted(mm)
    [] mm.SelectedOp \in {"DELETE", "HSET", "RPUSH"} -> OnInteger(mm, result)
    [] OTHER -> Falls(mm)

\* the error branch without the guard on m.CurrentState != StateLoading
OnResultErrorUnguarded(mm, err) ==
  IF IsTransport(err)
  THEN Returns([mm EXCEPT !.PreviousState = mm.CurrentState, !.CurrentState = "Loading"],
               connectToRedis)
  ELSE Falls([mm EXCEPT !.Output = ErrorText(err), !.CurrentState = "Output"])

\* case RedisResultMsg: the error branch
OnResultError(mm, err) ==
  IF IsTransport(err)
  THEN Returns([mm EXCEPT !.PreviousState = IF mm.CurrentState # "Loading"
                                             THEN mm.CurrentState ELSE @,
                          !.CurrentState = "Loading"],
               connectToRedis)
  ELSE Falls([mm EXCEPT !.Output = ErrorText(err), !.CurrentState = "Output"])

\* case RedisResultMsg
OnResult(mm, msg) ==
  IF msg.Error # NoErr
  THEN LET e == OnResultError(mm, msg.Error)
       IN  IF e.ret THEN e ELSE Dispatch(e.m, msg.Result)
  ELSE Dispatch(mm, msg.Result)

\* case RedisConnectionMsg, going back to the menu after every connection
OnConnectionToMenu(mm, msg) ==
  IF msg.Error # NoErr
  THEN Returns(mm, waitForNextConnection)
  ELSE Falls([mm EXCEPT !.Conn = msg.Conn, !.CurrentState = "Menu"])

\* case RedisConnectionMsg
OnConnection(mm, msg) ==
  IF msg.Error # NoErr
  THEN Returns(mm, waitForNextConnection)
  ELSE Falls([mm EXCEPT !.Conn = msg.Conn, !.CurrentState = mm.PreviousState])

\* case TickMsg
OnTick(mm) == Returns(mm, connectToRedis)

----------------------------------------------------------------------------
(* internal/tui/model.go: the per-state switch of Update (key presses) *)

\* list.Model.SelectedItem(): the item under the cursor, if any
HasSelected(items, sel) == sel \in 1..Len(items)

\* a variant of the esc of the input states that also forgets the key
InputEscForgets(mm) ==
  Ret([mm EXCEPT !.Input = <<>>, !.CurrentState = "Menu", !.Output = <<>>,
                 !.ActiveKey = <<>>], NoCmd)

InputEsc(mm) ==
  Ret([mm EXCEPT !.Input = <<>>, !.CurrentState = "Menu", !.Output = <<>>], NoCmd)

\* textinput.Model.Update for a printable key: the character is inserted
InputType(mm, k) == Ret([mm EXCEPT !.Input = Append(@, k)], NoCmd)

Printable(k) == k \notin {"enter", "esc", "ctrl+c"}

\* case StateMenu
KeyMenu(mm, msg) ==
  IF msg.key = "enter" /\ HasSelected(MenuItems, msg.sel)
  THEN LET op == MenuItems[msg.sel]
           m1 == [mm EXCEPT !.SelectedOp = op]
       IN  CASE op \in {"SET", "GET", "HSET", "HGET", "DELETE", "RPUSH"} ->
                  Ret([m1 EXCEPT !.PreviousState = mm.CurrentState,
                                 !.CurrentState = "InputKey"], NoCmd)
             [] op = "EXPLORE" ->
                  switchToLoadingAndExecute([m1 EXCEPT !.PreviousState = mm.CurrentState],
                                            scanRedisKeys(mm.Conn))
             [] OTHER -> Ret(m1, NoCmd)
  ELSE Ret(mm, NoCmd)

\* case StateInputKey
KeyInputKey(mm, msg) ==
  CASE msg.key = "esc" -> InputEsc(mm)
    [] msg.key = "enter" ->
         LET m1 == [mm EXCEPT !.ActiveKey = mm.Input, !.Input = <<>>]
         IN  CASE mm.SelectedOp = "GET" ->
                    switchToLoadingAndExecute(m1, sendRedisCmd(mm.Conn, "GET", <<m1.ActiveKey>>))
               [] mm.SelectedOp \in {"SET", "RPUSH"} ->
                    Ret([m1 EXCEPT !.CurrentState = "InputValue"], NoCmd)
               [] mm.SelectedOp = "HSET" ->
                    Ret([m1 EXCEPT !.CurrentState = "InputField"], NoCmd)
               [] mm.SelectedOp = "HGET" ->
                    switchToLoadingAndExecute(m1, sendRedisCmd(mm.Conn, "HKEYS", <<m1.ActiveKey>>))
               [] mm.SelectedOp = "DELETE" ->
                    switchToLoadingAndExecute(m1, sendRedisCmd(mm.Conn, "DEL", <<m1.ActiveKey>>))
               [] OTHER -> Ret(m1, NoCmd)
    [] OTHER -> InputType(mm, msg.key)

\* case StateInputField
KeyInputField(mm, msg) ==
  CASE msg.key = "esc" -> InputEsc(mm)
    [] msg.key = "enter" ->
         LET m1 == [mm EXCEPT !.ActiveField = mm.Input, !.Input = <<>>]
         IN  IF mm.SelectedOp = "HSET"
             THEN Ret([m1 EXCEPT !.CurrentState = "InputValue"], NoCmd)
             ELSE Ret(m1, NoCmd)
    [] OTHER -> InputType(mm, msg.key)

\* a variant of the StateInputValue case that sends every write with the key
\* and the value alone
KeyInputValueKeyValue(mm, msg) ==
  CASE msg.key = "esc" -> InputEsc(mm)
    [] msg.key = "enter" ->
         LET m1 == [mm EXCEPT !.ActiveValue = mm.Input, !.Input = <<>>]
         IN  IF mm.SelectedOp \in {"SET", "RPUSH", "HSET", "LSET"}
             THEN switchToLoadingAndExecute(m1,
                    sendRedisCmd(mm.Conn, mm.SelectedOp, <<m1.ActiveKey, m1.ActiveValue>>))
             ELSE Ret(m1, NoCmd)
    [] OTHER -> InputType(mm, msg.key)

\* case StateInputValue
KeyInputValue(mm, msg) ==
  CASE msg.key = "esc" -> InputEsc(mm)
    [] msg.key = "enter" ->
         LET m1 == [mm EXCEPT !.ActiveValue = mm.Input, !.Input = <<>>]
         IN  CASE mm.SelectedOp \in {"SET", "RPUSH"} ->
                    switchToLoadingAndExecute(m1,
                      sendRedisCmd(mm.Conn, mm.SelectedOp, <<m1.ActiveKey, m1.ActiveValue>>))
               [] mm.SelectedOp = "HSET" ->
                    switchToLoadingAndExecute(m1,
                      sendRedisCmd(mm.Conn, "HSET",
                                   <<m1.ActiveKey, m1.ActiveField, m1.ActiveValue>>))
               [] mm.SelectedOp = "LSET" ->
                    switchToLoadingAndExecute(m1,
                      sendRedisCmd(mm.Conn, "LSET",
                                   <<m1.ActiveKey, Itoa(m1.ActiveIndex), m1.ActiveValue>>))
               [] OTHER -> Ret(m1, NoCmd)
    [] OTHER -> InputType(mm, msg.key)

\* a variant of the StateFieldSelect case in which enter asks for the fields
\* of the key again
KeyFieldSelectAsksAgain(mm, msg) ==
  CASE msg.key = "esc" ->
         Ret([mm EXCEPT !.Input = <<>>, !.CurrentState = mm.PreviousState, !.Output = <<>>],
             NoCmd)
    [] msg.key = "enter" /\ HasSelected(mm.FieldsList, msg.sel) ->
         switchToLoadingAndExecute(mm, sendRedisCmd(mm.Conn, "HKEYS", <<mm.ActiveKey>>))
    [] OTHER -> Ret(mm, NoCmd)

\* a variant of the StateFieldSelect case that shows the description of an
\* element, not its title
KeyFieldSelectShowsDesc(mm, msg) ==
  CASE msg.key = "esc" ->
         Ret([mm EXCEPT !.Input = <<>>, !.CurrentState = mm.PreviousState, !.Output = <<>>],
             NoCmd)
    [] msg.key = "enter" /\ HasSelected(mm.FieldsList, msg.sel) ->
         LET selectedField == mm.FieldsList[msg.sel]
             m1 == [mm EXCEPT !.ActiveField = selectedField.title,
                              !.ActiveIndex = selectedField.index]
         IN  CASE mm.SelectedOp \in {"HGET", "HKEYS", "EXPLORE"} ->
                    switchToLoadingAndExecute([m1 EXCEPT !.SelectedOp = "HGET"],
                      sendRedisCmd(mm.Conn, "HGET", <<m1.ActiveKey, m1.ActiveField>>))
               [] mm.SelectedOp = "EXPLORE_LIST" ->
                    Ret([m1 EXCEPT !.Output = selectedField.desc, !.CurrentState = "Output"],
                        NoCmd)
               [] OTHER -> Ret(m1, NoCmd)
    [] msg.key = "d" /\ HasSelected(mm.FieldsList, msg.sel) ->
         Ret([mm EXCEPT !.ActiveField = mm.FieldsList[msg.sel].title,
                        !.PreviousState = mm.CurrentState,
                        !.CurrentState = "Confirmation",
                        !.SelectedOp = IF mm.SelectedOp = "EXPLORE_LIST" THEN "LREM" ELSE "HDEL"],
             NoCmd)
    [] OTHER -> Ret(mm, NoCmd)

\* case StateFieldSelect
KeyFieldSelect(mm, msg) ==
  CASE msg.key = "esc" ->
         Ret([mm EXCEPT !.Input = <<>>, !.CurrentState = mm.PreviousState, !.Output = <<>>],
             NoCmd)
    [] msg.key = "enter" /\ HasSelected(mm.FieldsList, msg.sel) ->
         LET selectedField == mm.FieldsList[msg.sel]
             m1 == [mm EXCEPT !.ActiveField = selectedField.title,
                              !.ActiveIndex = selectedField.index]
         IN  CASE mm.SelectedOp \in {"HGET", "HKEYS", "EXPLORE"} ->
                    switchToLoadingAndExecute([m1 EXCEPT !.SelectedOp = "HGET"],
                      sendRedisCmd(mm.Conn, "HGET", <<m1.ActiveKey, m1.ActiveField>>))
               [] mm.SelectedOp = "EXPLORE_LIST" ->
                    Ret([m1 EXCEPT !.Output = m1.ActiveField, !.CurrentState = "Output"], NoCmd)
               [] OTHER -> Ret(m1, NoCmd)
    [] msg.key = "d" /\ HasSelected(mm.FieldsList, msg.sel) ->
         Ret([mm EXCEPT !.ActiveField = mm.FieldsList[msg.sel].title,
                        !.PreviousState = mm.CurrentState,
                        !.CurrentState = "Confirmation",
                        !.SelectedOp = IF mm.SelectedOp = "EXPLORE_LIST" THEN "LREM" ELSE "HDEL"],
             NoCmd)
    [] OTHER -> Ret(mm, NoCmd)

\* case StateOutput
KeyOutput(mm, msg) ==
  CASE msg.key = "esc" ->
         Ret([mm EXCEPT !.Input = <<>>, !.CurrentState = mm.PreviousState, !.Output = <<>>],
             NoCmd)
    [] msg.key = "e" ->
         Ret([mm EXCEPT !.Input = mm.Output,
                        !.SelectedOp = CASE mm.SelectedOp = "GET" -> "SET"
                                         [] mm.SelectedOp = "HGET" -> "HSET"
                                         [] mm.SelectedOp = "EXPLORE_LIST" -> "LSET"
                                         [] OTHER -> @,
                        !.CurrentState = "InputValue"],
             NoCmd)
    [] OTHER -> Ret(mm, NoCmd)

\* case StateBrowser
KeyBrowser(mm, msg) ==
  CASE msg.key = "esc" -> InputEsc(mm)
    [] msg.key = "enter" /\ HasSelected(mm.KeyList, msg.sel) ->
         LET m1 == [mm EXCEPT !.ActiveKey = mm.KeyList[msg.sel].title,
                              !.SelectedOp = "CHECK_TYPE"]
         IN  switchToLoadingAndExecute(m1, sendRedisCmd(mm.Conn, "TYPE", <<m1.ActiveKey>>))
    [] msg.key = "d" /\ HasSelected(mm.KeyList, msg.sel) ->
         Ret([mm EXCEPT !.ActiveKey = mm.KeyList[msg.sel].title,
                        !.PreviousState = mm.CurrentState,
                        !.CurrentState = "Confirmation",
                        !.SelectedOp = "DEL"],
             NoCmd)
    [] OTHER -> Ret(mm, NoCmd)

\* case StateConfirmation, with "y" going through switchToLoadingAndExecute
KeyConfirmationRecording(mm, msg) ==
  CASE msg.key \in {"esc", "n", "N"} -> Ret([mm EXCEPT !.CurrentState = mm.PreviousState], NoCmd)
    [] msg.key \in {"y", "Y"} ->
         CASE mm.PreviousState = "Browser" ->
                switchToLoadingAndExecute([mm EXCEPT !.SelectedOp = "DEL"],
                    sendRedisCmd(mm.Conn, "DEL", <<mm.ActiveKey>>))
           [] mm.PreviousState = "FieldSelect" /\ mm.SelectedOp = "HDEL" ->
                switchToLoadingAndExecute(mm,
                    sendRedisCmd(mm.Conn, "HDEL", <<mm.ActiveKey, mm.ActiveField>>))
           [] mm.PreviousState = "FieldSelect" /\ mm.SelectedOp = "LREM" ->
                switchToLoadingAndExecute(mm,
                    sendRedisCmd(mm.Conn, "LREM", <<mm.ActiveKey, <<"1">>, mm.ActiveField>>))
           [] OTHER -> Ret(mm, NoCmd)
    [] OTHER -> Ret(mm, NoCmd)

\* case StateConfirmation, with the cancel keys going to the menu
KeyConfirmationToMenu(mm, msg) ==
  CASE msg.key \in {"esc", "n", "N"} -> Ret([mm EXCEPT !.CurrentState = "Menu"], NoCmd)
    [] msg.key \in {"y", "Y"} ->
         CASE mm.PreviousState = "Browser" ->
                Ret([mm EXCEPT !.SelectedOp = "DEL", !.CurrentState = "Loading"],
                    sendRedisCmd(mm.Conn, "DEL", <<mm.ActiveKey>>))
           [] mm.PreviousState = "FieldSelect" /\ mm.SelectedOp = "HDEL" ->
                Ret([mm EXCEPT !.CurrentState = "Loading"],
                    sendRedisCmd(mm.Conn, "HDEL", <<mm.ActiveKey, mm.ActiveField>>))
           [] mm.PreviousState = "FieldSelect" /\ mm.SelectedOp = "LREM" ->
                Ret([mm EXCEPT !.CurrentState = "Loading"],
                    sendRedisCmd(mm.Conn, "LREM", <<mm.ActiveKey, <<"1">>, mm.ActiveField>>))
           [] OTHER -> Ret(mm, NoCmd)
    [] OTHER -> Ret(mm, NoCmd)

\* case StateConfirmation
KeyConfirmation(mm, msg) ==
  CASE msg.key \in {"esc", "n", "N"} -> Ret([mm EXCEPT !.CurrentState = mm.PreviousState], NoCmd)
    [] msg.key \in {"y", "Y"} ->
         CASE mm.PreviousState = "Browser" ->
                Ret([mm EXCEPT !.SelectedOp = "DEL", !.CurrentState = "Loading"],
                    sendRedisCmd(mm.Conn, "DEL", <<mm.ActiveKey>>))
           [] mm.PreviousState = "FieldSelect" /\ mm.SelectedOp = "HDEL" ->
                Ret([mm EXCEPT !.CurrentState = "Loading"],
                    sendRedisCmd(mm.Conn, "HDEL", <<mm.ActiveKey, mm.ActiveField>>))
           [] mm.PreviousState = "FieldSelect" /\ mm.SelectedOp = "LREM" ->
                Ret([mm EXCEPT !.CurrentState = "Loading"],
                    sendRedisCmd(mm.Conn, "LREM", <<mm.ActiveKey, <<"1">>, mm.ActiveField>>))
           [] OTHER -> Ret(mm, NoCmd)
    [] OTHER -> Ret(mm, NoCmd)

\* a variant of the per-state switch in which esc gives up waiting in Loading
PerStateEscapes(mm, msg) ==
  IF msg.type # "key" THEN Ret(mm, NoCmd)
  ELSE CASE mm.CurrentState = "Menu" -> KeyMenu(mm, msg)
         [] mm.CurrentState = "InputKey" -> KeyInputKey(mm, msg)
         [] mm.CurrentState = "InputField" -> KeyInputField(mm, msg)
         [] mm.CurrentState = "InputValue" -> KeyInputValue(mm, msg)
         [] mm.CurrentState = "FieldSelect" -> KeyFieldSelect(mm, msg)
         [] mm.CurrentState = "Output" -> KeyOutput(mm, msg)
         [] mm.CurrentState = "Browser" -> KeyBrowser(mm, msg)
         [] mm.CurrentState = "Confirmation" -> KeyConfirmation(mm, msg)
         [] mm.CurrentState = "Loading" /\ msg.key = "esc" -> InputEsc(mm)
         [] OTHER -> Ret(mm, NoCmd)

\* switch m.CurrentState: only key presses change the model here; the widgets'
\* own Update leaves the fields of the model as they are for every other message
PerState(mm, msg) ==
  IF msg.type # "key" THEN Ret(mm, NoCmd)
  ELSE CASE mm.CurrentState = "Menu" -> KeyMenu(mm, msg)
         [] mm.CurrentState = "InputKey" -> KeyInputKey(mm, msg)
         [] mm.CurrentState = "InputField" -> KeyInputField(mm, msg)
         [] mm.CurrentState = "InputValue" -> KeyInputValue(mm, msg)
         [] mm.CurrentState = "FieldSelect" -> KeyFieldSelect(mm, msg)
         [] mm.CurrentState = "Output" -> KeyOutput(mm, msg)
         [] mm.CurrentState = "Browser" -> KeyBrowser(mm, msg)
         [] mm.CurrentState = "Confirmation" -> KeyConfirmation(mm, msg)
         [] OTHER -> Ret(mm, NoCmd)

\* the first switch of Update, on the type of the message
FirstSwitch(mm, msg) ==
  CASE msg.type = "key" -> IF msg.key = "ctrl+c" THEN Returns(mm, QuitCmd) ELSE Falls(mm)
    [] msg.type = "tick" -> OnTick(mm)
    [] msg.type = "conn" -> OnConnection(mm, msg)
    [] msg.type = "result" -> OnResult(mm, msg)
    [] OTHER -> Falls(mm)

\* Model.Update
Update(mm, msg) ==
  LET first == FirstSwitch(mm, msg)
  IN  IF first.ret THEN Ret(first.m, first.cmd) ELSE PerState(first.m, msg)

----------------------------------------------------------------------------
(* The environment: the user, the server and the goroutines of the commands *)

\* replies the server may send, as wire bytes: to any command
ReplyOK == <<"+", "O", "K", CR, LF>>
ReplyError == <<"-", "E", "R", "R", CR, LF>>
ReplyInteger == <<":", "1", CR, LF>>
ReplyBulk == <<"$", "1", CR, LF, "a", CR, LF>>
ReplyNullBulk == <<"$", "-", "1", CR, LF>>
ReplyBadLength == <<"$", "x", CR, LF>>
ReplyArray == <<"*", "2", CR, LF, "$", "1", CR, LF, "a", CR, LF, "$", "1", CR, LF, "b", CR, LF>>
ReplyEmptyArray == <<"*", "0", CR, LF>>
ReplyShortArray == <<"*", "1", CR, LF, "$", "1", CR, LF, "7", CR, LF>>
ReplyNegativeLength == <<"$", "-", "2", CR, LF>>

\* to TYPE
ReplyTypeString == <<"+">> \o TypeString \o CRLF
ReplyTypeHash == <<"+">> \o TypeHash \o CRLF
ReplyTypeList == <<"+">> \o TypeList \o CRLF
ReplyTypeSet == <<"+">> \o TypeSet \o CRLF
ReplyTypeZset == <<"+">> \o TypeZset \o CRLF
ReplyTypeNone == <<"+", "n", "o", "n", "e", CR, LF>>

\* to SCAN: the last batch (cursor "0") and a batch to continue from
ReplyScanEnd ==
  <<"*", "2", CR, LF, "$", "1", CR, LF, "0", CR, LF,
    "*", "1", CR, LF, "$", "1", CR, LF, "a", CR, LF>>
ReplyScanMore ==
  <<"*", "2", CR, LF, "$", "1", CR, LF, "7", CR, LF,
    "*", "1", CR, LF, "$", "1", CR, LF, "b", CR, LF>>

\* replies cut short by the end of the stream: inside a line, inside a bulk payload
ReplyCutLine == <<"+", "O">>
ReplyCutBulk == <<"$", "2", CR, LF, "a">>

AnyReplies ==
  {ReplyOK, ReplyError, ReplyInteger, ReplyBulk, ReplyNullBulk, ReplyBadLength,
   ReplyArray, ReplyEmptyArray, ReplyShortArray, ReplyNegativeLength}
TypeReplies ==
  {ReplyTypeString, ReplyTypeHash, ReplyTypeList, ReplyTypeSet, ReplyTypeZset, ReplyTypeNone}
ScanReplies == {ReplyScanEnd, ReplyScanMore}
CutReplies == {ReplyCutLine, ReplyCutBulk}

\* the repertoires: what a server of each kind answers to any command
Repertoire(kind) ==
  CASE kind = "status" -> {ReplyOK, ReplyError, ReplyInteger}
    [] kind = "data" -> {ReplyBulk, ReplyArray, ReplyEmptyArray}
    [] kind = "broken" -> {ReplyNullBulk, ReplyBadLength, ReplyShortArray, ReplyNegativeLength}
    [] OTHER -> AnyReplies

Servers == {"status", "data", "broken"}

\* what a Redis server answers to the command of task t: an integer to the
\* writes that count, a status to SET and LSET, a bulk string to GET and HGET,
\* a type name to TYPE, a cursor and keys to SCAN, an array to the rest
RedisReplies(t) ==
  CASE t.Name \in {"DEL", "HDEL", "LREM", "HSET", "RPUSH"} -> {ReplyInteger}
    [] t.Name \in {"SET", "LSET"} -> {ReplyOK}
    [] t.Name \in {"GET", "HGET"} -> {ReplyBulk}
    [] t.Name = "TYPE" -> TypeReplies
    [] t.Name = "SCAN" -> ScanReplies
    [] OTHER -> {ReplyArray}

\* what the server may answer to the command of task t
Replies(t) ==
  IF server = "redis" THEN RedisReplies(t)
  ELSE Repertoire(server)
         \cup (IF server = "data" /\ t.Name = "TYPE" THEN TypeReplies ELSE {})
         \cup (IF server = "data" /\ t.Name = "SCAN" THEN ScanReplies ELSE {})
         \cup (IF server = "data" /\ t.Name = "ZRANGE" THEN {ReplyShortArray} ELSE {})

\* the answers a server may break off by closing the stream
Cuts == IF server = "broken" THEN CutReplies ELSE {}

\* keys the user presses; in a text-entry state the printable ones are typed
Keys == {"enter", "esc", "ctrl+c", "a", "d", "e", "y", "n"}
TypedKeys == {"a"}

InputStates == {"InputKey", "InputField", "InputValue"}

\* positions the cursor of the list shown in the current state can have
Cursors(mm) ==
  CASE mm.CurrentState = "Menu" -> 1..Len(MenuItems)
    [] mm.CurrentState = "FieldSelect" /\ mm.FieldsList # <<>> -> 1..Len(mm.FieldsList)
    [] mm.CurrentState = "Browser" /\ mm.KeyList # <<>> -> 1..Len(mm.KeyList)
    [] OTHER -> {0}

\* the handlers read the cursor for enter and d alone; one position stands for
\* all under any other key
CursorsFor(k, mm) ==
  IF k \in {"enter", "d"} THEN Cursors(mm) ELSE {SetMin(Cursors(mm))}

\* the goroutine of a command returned by Update
NewTask(cmd) ==
  [kind |-> cmd.c, conn |-> cmd.conn, Name |-> cmd.Name, Args |-> cmd.Args,
   phase |-> "write", cursor |-> <<"0">>, keys |-> <<>>]

RemoveAt(seq, i) == SubSeq(seq, 1, i - 1) \o SubSeq(seq, i + 1, Len(seq))

IsCommand(cmd) == cmd.c \in {"send", "scan"}

\* what is remembered of a handled message: its type, the key, the kind of its
\* error, the dynamic type of its result, the first byte of the reply it was
\* read from, and (but for key presses) the operation tag and state Update
\* found; a key press that changes nothing and starts nothing is not remembered
Handled(msg, wire) ==
  [type |-> msg.type, key |-> msg.key, err |-> msg.Error.kind, res |-> msg.Result.t,
   wire |-> wire,
   op |-> IF msg.type = "key" THEN "" ELSE m.SelectedOp,
   from |-> IF msg.type = "key" THEN "" ELSE m.CurrentState]

\* the program handles msg: Update runs and the command it returns is started;
\* ts, d and t are the running tasks, dials and timers without the one that
\* produced msg
Handle(msg, wire, ts, d, t) ==
  LET r == Update(m, msg)
  IN  /\ m' = r.m
      /\ tasks' = IF IsCommand(r.cmd) THEN Append(ts, NewTask(r.cmd)) ELSE ts
      /\ dials' = IF r.cmd.c = "connect" THEN d + 1 ELSE d
      /\ timers' = IF r.cmd.c = "wait" THEN t + 1 ELSE t
      /\ UNCHANGED running
      /\ last' = IF msg.type = "key" /\ r = Ret(m, NoCmd) THEN last ELSE Handled(msg, wire)

\* the process ends: its goroutines and connections end with it
Exit(how) ==
  /\ running' = how
  /\ tasks' = <<>>
  /\ dials' = 0
  /\ timers' = 0
  /\ conns' = [c \in 1..MaxConns |-> [rx |-> <<>>, eof |-> TRUE]]
  /\ issued' = 0
  /\ UNCHANGED nconn

\* ctrl+c: Update returns tea.Quit and the program ends
Quit ==
  /\ running = "running"
  /\ Update(m, KeyMsg("ctrl+c", 0)).cmd = QuitCmd
  /\ m' = Update(m, KeyMsg("ctrl+c", 0)).m
  /\ last' = Handled(KeyMsg("ctrl+c", 0), "")
  /\ Exit("quit")

\* a panic in a goroutine ends the program
Crash ==
  /\ Exit("crashed")
  /\ UNCHANGED <<m, last>>

\* commands the key presses of one session start: a session with a server that
\* answers as Redis does is followed one command further
Budget == IF server = "redis" THEN MaxIssued + 1 ELSE MaxIssued

\* any other key press
KeyPress(k, sel) ==
  /\ running = "running"
  /\ k # "ctrl+c"
  /\ m.CurrentState \in InputStates /\ Printable(k) => k \in TypedKeys /\ Len(m.Input) < MaxInput
  /\ IsCommand(Update(m, KeyMsg(k, sel)).cmd) => Len(tasks) < MaxTasks /\ issued < Budget
  /\ Handle(KeyMsg(k, sel), "", tasks, dials, timers)
  /\ issued' = IF IsCommand(Update(m, KeyMsg(k, sel)).cmd) THEN issued + 1 ELSE issued
  /\ UNCHANGED <<conns, nconn>>

\* waitForNextConnection: the two seconds are over
Tick ==
  /\ running = "running"
  /\ timers > 0
  /\ Handle(TickMsg, "", tasks, dials, timers - 1)
  /\ UNCHANGED <<conns, nconn, issued>>

\* connectToRedis: net.Dial fails
DialFails ==
  /\ running = "running"
  /\ dials > 0
  /\ Handle(RedisConnectionMsg(0, ErrNet), "", tasks, dials - 1, timers)
  /\ UNCHANGED <<conns, nconn, issued>>

\* connectToRedis: net.Dial returns a new connection
DialSucceeds ==
  /\ running = "running"
  /\ dials > 0
  /\ nconn < MaxConns
  /\ nconn' = nconn + 1
  /\ Handle(RedisConnectionMsg(nconn + 1, NoErr), "", tasks, dials - 1, timers)
  /\ UNCHANGED <<conns, issued>>

\* sendRedisCmd with a nil connection: the safety check answers at once
SendNoConnection(i) ==
  /\ running = "running"
  /\ tasks[i].phase = "write" /\ tasks[i].kind = "send" /\ tasks[i].conn = 0
  /\ Handle(RedisResultMsg(NilV, ErrNoConn), "", RemoveAt(tasks, i), dials, timers)
  /\ UNCHANGED <<conns, nconn, issued>>

\* scanRedisKeys with a nil connection: conn.Write on a nil interface panics
ScanNoConnection(i) ==
  /\ running = "running"
  /\ tasks[i].phase = "write" /\ tasks[i].kind = "scan" /\ tasks[i].conn = 0
  /\ Crash

\* conn.Write fails on a connection the server has closed
WriteFails(i) ==
  /\ running = "running"
  /\ tasks[i].phase = "write" /\ tasks[i].conn # 0
  /\ conns[tasks[i].conn].eof
  /\ Handle(RedisResultMsg(NilV, ErrNet), "", RemoveAt(tasks, i), dials, timers)
  /\ UNCHANGED <<conns, nconn, issued>>

\* conn.Write succeeds on a connection the server has closed: no answer comes
WriteLost(i) ==
  /\ running = "running"
  /\ tasks[i].phase = "write" /\ tasks[i].conn # 0
  /\ conns[tasks[i].conn].eof
  /\ tasks' = [tasks EXCEPT ![i].phase = "read"]
  /\ UNCHANGED <<m, dials, timers, conns, nconn, running, last, issued>>

\* replies that carry a batch of keys and a cursor to continue from
MoreKeys == {ReplyScanMore}

\* conn.Write succeeds and the server answers with the bytes r
Write(i, r) ==
  /\ running = "running"
  /\ tasks[i].phase = "write" /\ tasks[i].conn # 0
  /\ ~conns[tasks[i].conn].eof
  /\ Len(conns[tasks[i].conn].rx) + Len(r) <= MaxRx
  /\ Len(tasks[i].keys) >= MaxKeys => r \notin MoreKeys
  /\ conns' = [conns EXCEPT ![tasks[i].conn].rx = @ \o r]
  /\ tasks' = [tasks EXCEPT ![i].phase = "read"]
  /\ UNCHANGED <<m, dials, timers, nconn, running, last, issued>>

\* conn.Write succeeds, the server sends the first bytes r of an answer and the
\* stream ends
WriteCut(i, r) ==
  /\ running = "running"
  /\ tasks[i].phase = "write" /\ tasks[i].conn # 0
  /\ ~conns[tasks[i].conn].eof
  /\ Len(conns[tasks[i].conn].rx) + Len(r) <= MaxRx
  /\ conns' = [conns EXCEPT ![tasks[i].conn] = [rx |-> @.rx \o r, eof |-> TRUE]]
  /\ tasks' = [tasks EXCEPT ![i].phase = "read"]
  /\ UNCHANGED <<m, dials, timers, nconn, running, last, issued>>

\* the server closes the connection
ServerClose(c) ==
  /\ running = "running"
  /\ c <= nconn
  /\ ~conns[c].eof
  /\ conns' = [conns EXCEPT ![c].eof = TRUE]
  /\ UNCHANGED <<m, tasks, dials, timers, nconn, running, last, issued>>

\* redis.ReadResp on the connection of task i
TaskReply(i) == ReadResp(conns[tasks[i].conn].rx, conns[tasks[i].conn].eof)

\* the first byte ReadResp of task i reads
TaskWire(i) ==
  IF conns[tasks[i].conn].rx = <<>> THEN "" ELSE Head(conns[tasks[i].conn].rx)

\* ReadResp panics: make([]byte, n) with a negative n
ReadPanics(i) ==
  /\ running = "running"
  /\ tasks[i].phase = "read"
  /\ TaskReply(i).st = "panic"
  /\ Crash

\* the result message of a read
ResultOf(res) ==
  IF res.st = "ok" THEN RedisResultMsg(res.v, NoErr) ELSE RedisResultMsg(NilV, res.err)

\* sendRedisCmd: the reply, or the error of reading it, is delivered
SendResult(i) ==
  /\ running = "running"
  /\ tasks[i].phase = "read" /\ tasks[i].kind = "send"
  /\ TaskReply(i).st \in {"ok", "err"}
  /\ conns' = [conns EXCEPT ![tasks[i].conn].rx = TaskReply(i).rest]
  /\ Handle(ResultOf(TaskReply(i)), TaskWire(i), RemoveAt(tasks, i), dials, timers)
  /\ UNCHANGED <<nconn, issued>>

\* scanRedisKeys: what one reply does to the cursor and the keys; resp[0] and
\* resp[1] panic on a shorter array
ScanCursor(t, v) ==
  IF v.t = "[]any" /\ v.a[1].t = "string" THEN v.a[1].s ELSE t.cursor

\* a variant of ScanKeys that keeps the keys of the latest reply alone
ScanKeysLatest(t, v) ==
  IF v.t = "[]any" /\ v.a[2].t = "[]any"
  THEN LET strs == SelectSeq(v.a[2].a, LAMBDA x : x.t = "string")
       IN  [j \in 1..Len(strs) |-> ListItem(0, strs[j].s, <<"k", "e", "y">>)]
  ELSE t.keys

\* scanRedisKeys: the command the loop sends for task t
ScanRequest(t) ==
  sendRedisCmd(t.conn, "SCAN", <<t.cursor, <<"M", "A", "T", "C", "H">>, <<"*">>>>)

ScanKeys(t, v) ==
  IF v.t = "[]any" /\ v.a[2].t = "[]any"
  THEN LET strs == SelectSeq(v.a[2].a, LAMBDA x : x.t = "string")
       IN  t.keys \o [j \in 1..Len(strs) |-> ListItem(0, strs[j].s, <<"k", "e", "y">>)]
  ELSE t.keys

ScanPanics(i) ==
  /\ running = "running"
  /\ tasks[i].phase = "read" /\ tasks[i].kind = "scan"
  /\ TaskReply(i).st = "ok"
  /\ TaskReply(i).v.t = "[]any" /\ Len(TaskReply(i).v.a) < 2
  /\ Crash

\* scanRedisKeys: a read fails, or the reply leaves the cursor at "0"
ScanResult(i) ==
  /\ running = "running"
  /\ tasks[i].phase = "read" /\ tasks[i].kind = "scan"
  /\ LET res == TaskReply(i)
     IN  /\ res.st \in {"ok", "err"}
         /\ res.st = "ok" /\ res.v.t = "[]any" => Len(res.v.a) >= 2
         /\ res.st = "ok" => ScanCursor(tasks[i], res.v) = <<"0">>
         /\ conns' = [conns EXCEPT ![tasks[i].conn].rx = res.rest]
         /\ Handle(IF res.st = "ok"
                   THEN RedisResultMsg(ItemsV(ScanKeys(tasks[i], res.v)), NoErr)
                   ELSE RedisResultMsg(NilV, res.err),
                   TaskWire(i), RemoveAt(tasks, i), dials, timers)
  /\ UNCHANGED <<nconn, issued>>

\* scanRedisKeys: the cursor is not "0", the loop sends the next SCAN
ScanAgain(i) ==
  /\ running = "running"
  /\ tasks[i].phase = "read" /\ tasks[i].kind = "scan"
  /\ LET res == TaskReply(i)
     IN  /\ res.st = "ok"
         /\ res.v.t = "[]any" => Len(res.v.a) >= 2
         /\ ScanCursor(tasks[i], res.v) # <<"0">>
         /\ conns' = [conns EXCEPT ![tasks[i].conn].rx = res.rest]
         /\ tasks' = [tasks EXCEPT ![i].phase = "write",
                                   ![i].cursor = ScanCursor(tasks[i], res.v),
                                   ![i].keys = ScanKeys(tasks[i], res.v)]
  /\ UNCHANGED <<m, dials, timers, nconn, running, last, issued>>

NothingHandled ==
  [type |-> "init", key |-> "", err |-> "", res |-> "nil", wire |-> "", op |-> "",
   from |-> "Menu"]

\* tea.NewProgram(initialModel).Run(): Init() starts the first connectToRedis
InitSession ==
  /\ m = initialModel
  /\ tasks = <<>>
  /\ dials = 1
  /\ timers = 0
  /\ conns = [c \in 1..MaxConns |-> [rx |-> <<>>, eof |-> FALSE]]
  /\ nconn = 0
  /\ running = "running"
  /\ last = NothingHandled
  /\ issued = 0

Init ==
  /\ InitSession
  /\ server \in Servers
  /\ stream = <<>>
  /\ atEOF = FALSE
  /\ decoded = <<>>

Next ==
  \/ \E k \in Keys : \E sel \in CursorsFor(k, m) : KeyPress(k, sel) /\ UNCHANGED codecVars
  \/ Quit /\ UNCHANGED codecVars
  \/ Tick /\ UNCHANGED codecVars
  \/ DialFails /\ UNCHANGED codecVars
  \/ DialSucceeds /\ UNCHANGED codecVars
  \/ \E i \in 1..Len(tasks) : SendNoConnection(i) /\ UNCHANGED codecVars
  \/ \E i \in 1..Len(tasks) : ScanNoConnection(i) /\ UNCHANGED codecVars
  \/ \E i \in 1..Len(tasks) : WriteFails(i) /\ UNCHANGED codecVars
  \/ \E i \in 1..Len(tasks) : WriteLost(i) /\ UNCHANGED codecVars
  \/ \E i \in 1..Len(tasks) : \E r \in Replies(tasks[i]) : Write(i, r) /\ UNCHANGED codecVars
  \/ \E i \in 1..Len(tasks) : \E r \in Cuts : WriteCut(i, r) /\ UNCHANGED codecVars
  \/ \E c \in 1..MaxConns : ServerClose(c) /\ UNCHANGED codecVars
  \/ \E i \in 1..Len(tasks) : ReadPanics(i) /\ UNCHANGED codecVars
  \/ \E i \in 1..Len(tasks) : SendResult(i) /\ UNCHANGED codecVars
  \/ \E i \in 1..Len(tasks) : ScanPanics(i) /\ UNCHANGED codecVars
  \/ \E i \in 1..Len(tasks) : ScanResult(i) /\ UNCHANGED codecVars
  \/ \E i \in 1..Len(tasks) : ScanAgain(i) /\ UNCHANGED codecVars

Spec == Init /\ [][Next]_vars

----------------------------------------------------------------------------
(* The session from the key browser on: connected, the keys of one scan shown *)

\* the model after EXPLORE from the menu and a scan that returned the key "a"
browserModel ==
  [initialModel EXCEPT !.CurrentState = "Browser", !.PreviousState = "Menu",
                       !.SelectedOp = "EXPLORE", !.Conn = 1,
                       !.KeyList = <<ListItem(0, <<"a">>, <<"k", "e", "y">>)>>]

BrowserServers == {"redis", "data"}

InitBrowser ==
  /\ m = browserModel
  /\ tasks = <<>>
  /\ dials = 0
  /\ timers = 0
  /\ conns = [c \in 1..MaxConns |-> [rx |-> <<>>, eof |-> FALSE]]
  /\ nconn = 1
  /\ running = "running"
  /\ last = [type |-> "result", key |-> "", err |-> "", res |-> "[]list.Item",
             wire |-> "*", op |-> "EXPLORE", from |-> "Loading"]
  /\ issued = 0
  /\ server \in BrowserServers
  /\ stream = <<>>
  /\ atEOF = FALSE
  /\ decoded = <<>>

\* the user and a server that answers every command
NextBrowser ==
  \/ \E k \in Keys : \E sel \in CursorsFor(k, m) : KeyPress(k, sel) /\ UNCHANGED codecVars
  \/ Quit /\ UNCHANGED codecVars
  \/ \E i \in 1..Len(tasks) : \E r \in Replies(tasks[i]) : Write(i, r) /\ UNCHANGED codecVars
  \/ \E i \in 1..Len(tasks) : SendResult(i) /\ UNCHANGED codecVars
  \/ \E i \in 1..Len(tasks) : ScanResult(i) /\ UNCHANGED codecVars
  \/ \E i \in 1..Len(tasks) : ScanAgain(i) /\ UNCHANGED codecVars
  \/ \E i \in 1..Len(tasks) : ScanPanics(i) /\ UNCHANGED codecVars

SpecBrowser == InitBrowser /\ [][NextBrowser]_vars

\* neither the server nor the goroutines stop while one of them can take a step
SpecBrowserFair == SpecBrowser /\ WF_vars(NextBrowser)

----------------------------------------------------------------------------
(* The session after a command was confirmed before the first connection *)

\* the model after enter on GET in the menu and enter in InputKey, both before
\* connectToRedis returned; then the connection, which put the session back to
\* InputKey; then enter again, which sent GET on the connection; then the
\* error of the first command, shown in Output while the second is under way
earlyModel ==
  [initialModel EXCEPT !.CurrentState = "Output", !.PreviousState = "InputKey",
                       !.SelectedOp = "GET", !.Conn = 1,
                       !.Output = ErrorText(ErrNoConn)]

InitEarly ==
  /\ m = earlyModel
  /\ tasks = <<NewTask(sendRedisCmd(1, "GET", <<<<>>>>))>>
  /\ dials = 0
  /\ timers = 0
  /\ conns = [c \in 1..MaxConns |-> [rx |-> <<>>, eof |-> FALSE]]
  /\ nconn = 1
  /\ running = "running"
  /\ last = [type |-> "result", key |-> "", err |-> "NoConn", res |-> "nil", wire |-> "",
             op |-> "GET", from |-> "Loading"]
  /\ issued = 2
  /\ server = "redis"
  /\ stream = <<>>
  /\ atEOF = FALSE
  /\ decoded = <<>>

\* the user, the goroutines and a Redis server that may close a connection
NextEarly ==
  \/ \E k \in Keys : \E sel \in CursorsFor(k, m) : KeyPress(k, sel) /\ UNCHANGED codecVars
  \/ Quit /\ UNCHANGED codecVars
  \/ Tick /\ UNCHANGED codecVars
  \/ DialFails /\ UNCHANGED codecVars
  \/ DialSucceeds /\ UNCHANGED codecVars
  \/ \E i \in 1..Len(tasks) : WriteFails(i) /\ UNCHANGED codecVars
  \/ \E i \in 1..Len(tasks) : \E r \in Replies(tasks[i]) : Write(i, r) /\ UNCHANGED codecVars
  \/ \E c \in 1..MaxConns : ServerClose(c) /\ UNCHANGED codecVars
  \/ \E i \in 1..Len(tasks) : SendResult(i) /\ UNCHANGED codecVars
  \/ \E i \in 1..Len(tasks) : ScanResult(i) /\ UNCHANGED codecVars
  \/ \E i \in 1..Len(tasks) : ScanAgain(i) /\ UNCHANGED codecVars

SpecEarly == InitEarly /\ [][NextEarly]_vars

----------------------------------------------------------------------------
(* A harness for the codec alone: ReadResp called repeatedly on one stream *)

Range(seq) == {seq[i] : i \in 1..Len(seq)}

ReplyUnknownPrefix == <<"?", "x", CR, LF>>
ReplyNullArray == <<"*", "-", "1", CR, LF>>
ReplyBigInteger == <<":", "4", "2", CR, LF>>
ReplyNegativeInteger == <<":", "-", "7", CR, LF>>

\* the bulk string whose five bytes are "(nil)"
ReplyNilTextBulk == <<"$", "5", CR, LF>> \o NilText \o CRLF

\* an array count below -1
ReplyNegativeCount == <<"*", "-", "2", CR, LF>>
ReplyBadCount == <<"*", "x", CR, LF>>
ReplyNestedBadLength == <<"*", "1", CR, LF, "$", "x", CR, LF>>

CodecReplies ==
  AnyReplies \cup ScanReplies \cup CutReplies
    \cup {ReplyUnknownPrefix, ReplyNullArray, ReplyBigInteger, ReplyNegativeInteger,
          ReplyBadCount, ReplyNestedBadLength, ReplyNilTextBulk,
          ReplyNegativeCount}

\* one reply, or two replies one after the other
CodecStreams == {a \o b : a \in CodecReplies, b \in CodecReplies \cup {<<>>}}

InitCodec ==
  /\ InitSession
  /\ server = "none"
  /\ stream \in CodecStreams
  /\ atEOF \in BOOLEAN
  /\ decoded = <<>>

\* one call of ReadResp: what it was given, what it returned, what it left
Decode ==
  /\ Len(decoded) < MaxDecodes
  /\ decoded # <<>> => decoded[Len(decoded)].out.st \in {"ok", "err"}
  /\ decoded' = Append(decoded, [in |-> stream, out |-> ReadResp(stream, atEOF)])
  /\ stream' = IF ReadResp(stream, atEOF).st \in {"ok", "err"}
               THEN ReadResp(stream, atEOF).rest ELSE stream
  /\ UNCHANGED <<sessionVars, server, atEOF>>

NextCodec == Decode

SpecCodec == InitCodec /\ [][NextCodec]_vars

----------------------------------------------------------------------------
(* A harness for the round trip: the bytes of one command are decoded again *)

\* the byte strings of names and arguments: empty, plain, holding CR and LF,
\* holding a character of two bytes
EchoStrings == {<<>>, <<"a">>, <<CR, LF>>, Eacute}

EchoArgs == {<<>>} \cup {<<x>> : x \in EchoStrings}
              \cup {<<x, y>> : x \in EchoStrings, y \in EchoStrings}

InitEcho ==
  /\ m = initialModel
  /\ \E name \in EchoStrings : \E args \in EchoArgs :
        tasks = <<NewTask(sendRedisCmd(0, name, args))>>
  /\ dials = 0
  /\ timers = 0
  /\ conns = [c \in 1..MaxConns |-> [rx |-> <<>>, eof |-> FALSE]]
  /\ nconn = 0
  /\ running = "running"
  /\ last = NothingHandled
  /\ issued = 0
  /\ server = "echo"
  /\ stream = <<>>
  /\ atEOF \in BOOLEAN
  /\ decoded = <<>>

\* cmd.ToBytes(): the bytes of the command come back as the stream to read
Encode ==
  /\ tasks[1].phase = "write"
  /\ stream' = ToBytes(tasks[1].Name, tasks[1].Args)
  /\ tasks' = [tasks EXCEPT ![1].phase = "read"]
  /\ UNCHANGED <<m, dials, timers, conns, nconn, running, last, issued, server, atEOF, decoded>>

\* ReadResp on the bytes that came back
DecodeEcho == tasks[1].phase = "read" /\ Decode

NextEcho == Encode \/ DecodeEcho

SpecEcho == InitEcho /\ [][NextEcho]_vars

----------------------------------------------------------------------------
(* Properties of the session controller, checked under Spec *)

Alive == running = "running"

\* what is waiting to be delivered to Update
Pending == Len(tasks) + dials + timers

\* the last message Update handled was a reply read without error
ReplyHandled == Alive /\ last.type = "result" /\ last.err = ""

\* C1: at most one command task (sendRedisCmd or scanRedisKeys) is outstanding
\* at any time
C1_OneCommandOutstanding == Len(tasks) <= 1

Mismatch(op, t) ==
  \/ op \in {"GET", "HGET"} /\ t = "[]any"
  \/ op \in {"HKEYS", "LRANGE", "SMEMBERS", "ZRANGE", "EXPLORE"} /\ t = "string"
  \/ op = "CHECK_TYPE" /\ t # "string"
  \/ op \in {"HSET", "RPUSH"} /\ t # "int"

C4_ErrorReplyShown ==
  ReplyHandled /\ last.wire = "-"
    => m.CurrentState = "Output" /\ m.Output = <<"E", "R", "R">>

\* C5: after the integer reply ":1" to HSET or RPUSH the session is in Output
\* and the text is "1"
C5_IntegerShown ==
  ReplyHandled /\ last.wire = ":" /\ last.op \in {"HSET", "RPUSH"}
    => m.CurrentState = "Output" /\ m.Output = <<"1">>

\* the result of task i is delivered to Update
Delivers(i) == SendNoConnection(i) \/ WriteFails(i) \/ SendResult(i) \/ ScanResult(i)

\* a step in which Update handles a command result carrying io.EOF or a net.Error
TransportFailure ==
  /\ \E i \in 1..Len(tasks) : Delivers(i)
  /\ last'.type = "result" /\ last'.err \in {"EOF", "NetError"}

\* C7: a command result carrying a transport failure makes CurrentState
\* Loading, makes PreviousState the prior CurrentState unless that was Loading,
\* starts exactly one connect attempt and nothing else, and leaves the
\* operation tag, ActiveKey, ActiveField, ActiveValue and Output as they were
C7_TransportFailureReconnects ==
  [][TransportFailure =>
       /\ m'.CurrentState = "Loading"
       /\ m'.PreviousState = IF m.CurrentState # "Loading"
                             THEN m.CurrentState ELSE m.PreviousState
       /\ dials' = dials + 1 /\ timers' = timers /\ Len(tasks') = Len(tasks) - 1
       /\ m'.SelectedOp = m.SelectedOp
       /\ m'.ActiveKey = m.ActiveKey /\ m'.ActiveField = m.ActiveField
       /\ m'.ActiveValue = m.ActiveValue /\ m'.Output = m.Output]_vars

\* a read that met the end of the stream has been handled in Loading, under
\* GET from InputKey, and the one connect attempt is under way
C7_Witness ==
  /\ Alive /\ last.type = "result" /\ last.err = "EOF" /\ last.from = "Loading"
  /\ m.CurrentState = "Loading" /\ m.PreviousState = "InputKey"
  /\ m.SelectedOp = "GET" /\ dials = 1 /\ tasks = <<>>

\* C8: after a read that failed because the stream ended (before the prefix
\* byte, inside a line, partway through a bulk payload) or a write that failed,
\* the session is in Loading with a connect attempt under way, not in Output
C8_StreamEndReconnects ==
  Alive /\ last.type = "result" /\ last.err \in {"EOF", "UnexpectedEOF", "NetError"}
    => m.CurrentState = "Loading" /\ dials >= 1

\* C9: a connect failure schedules exactly one retry tick and a tick starts
\* exactly one connect attempt; neither counts the attempts, and neither
\* changes the model, so the recorded PreviousState is kept through the
\* retries; a connect success makes CurrentState that PreviousState (Menu at
\* startup), which is never Loading
C9_ReconnectLoop ==
  [][/\ DialFails => /\ timers' = timers + 1 /\ dials' = dials - 1
                     /\ tasks' = tasks /\ m' = m
     /\ Tick => /\ dials' = dials + 1 /\ timers' = timers - 1
                /\ tasks' = tasks /\ m' = m
     /\ DialSucceeds => /\ m'.CurrentState = m.PreviousState
                        /\ m'.CurrentState # "Loading"
                        /\ dials' = dials - 1 /\ timers' = timers /\ tasks' = tasks]_vars

\* the second connection has been made from Loading, after a transport
\* failure under InputKey, and the session is back in InputKey
C9_Witness ==
  /\ Alive /\ last.type = "conn" /\ last.err = "" /\ last.from = "Loading"
  /\ nconn = 2 /\ m.Conn = 2
  /\ m.CurrentState = "InputKey" /\ m.PreviousState = "InputKey"

\* C10: after a transport failure and a later successful connect (the second
\* connection), no command is outstanding until the next message is handled
C10_NothingOutstandingAfterReconnect ==
  Alive /\ last.type = "conn" /\ last.err = "" /\ nconn >= 2 => tasks = <<>>

\* C11: until the first connect attempt has succeeded the session is in
\* Loading, exactly as constructed but for that state, and no command has
\* been started
C11_StartsInLoading ==
  Alive /\ nconn = 0
    => m = [initialModel EXCEPT !.CurrentState = "Loading"] /\ tasks = <<>>

\* the command the queued delete of mm stands for
QueuedDelete(mm) ==
  CASE mm.PreviousState = "Browser" -> sendRedisCmd(mm.Conn, "DEL", <<mm.ActiveKey>>)
    [] mm.SelectedOp = "HDEL" -> sendRedisCmd(mm.Conn, "HDEL", <<mm.ActiveKey, mm.ActiveField>>)
    [] OTHER -> sendRedisCmd(mm.Conn, "LREM", <<mm.ActiveKey, <<"1">>, mm.ActiveField>>)

\* C12: in every Confirmation entered from Browser or FieldSelect, 'y' and 'Y'
\* make CurrentState Loading, keep PreviousState and return the one command
\* of the queued delete: DEL(ActiveKey) from Browser, HDEL(ActiveKey,
\* ActiveField) or LREM(ActiveKey, 1, ActiveField) from FieldSelect
C12_ConfirmSendsDelete ==
  Alive /\ m.CurrentState = "Confirmation" /\ m.PreviousState \in {"Browser", "FieldSelect"}
    => /\ m.PreviousState = "FieldSelect" => m.SelectedOp \in {"HDEL", "LREM"}
       /\ \A k \in {"y", "Y"} :
            LET r == Update(m, KeyMsg(k, 0))
            IN  /\ r.m.CurrentState = "Loading"
                /\ r.m.PreviousState = m.PreviousState
                /\ r.cmd = QueuedDelete(m)

\* 'y' has been pressed in a Confirmation entered from FieldSelect: HDEL for
\* the chosen field is under way and PreviousState is still FieldSelect
C12_Witness ==
  /\ Alive /\ last.type = "key" /\ last.key = "y"
  /\ m.CurrentState = "Loading" /\ m.PreviousState = "FieldSelect"
  /\ Len(tasks) = 1 /\ tasks[1].Name = "HDEL"
  /\ tasks[1].Args = <<m.ActiveKey, m.ActiveField>>

\* C13: in every Confirmation, 'n', 'N' and esc make CurrentState the
\* PreviousState, return no command and change nothing else
C13_CancelGoesBack ==
  Alive /\ m.CurrentState = "Confirmation"
    => \A k \in {"n", "N", "esc"} :
         Update(m, KeyMsg(k, 0)) = Ret([m EXCEPT !.CurrentState = m.PreviousState], NoCmd)

\* 'n' has been pressed in a Confirmation entered from Browser: the session
\* is back in Browser with the tag and key of the cancelled delete, and
\* nothing is under way
C13_Witness ==
  /\ Alive /\ last.type = "key" /\ last.key = "n"
  /\ m.CurrentState = "Browser" /\ m.PreviousState = "Browser"
  /\ m.SelectedOp = "DEL" /\ m.ActiveKey # <<>> /\ tasks = <<>>

\* C16: PreviousState changes only in a step that ends in Loading or
\* Confirmation and does not start in Loading
C16_PreviousStateRecorded ==
  [][m'.PreviousState # m.PreviousState
       => m'.CurrentState \in {"Loading", "Confirmation"} /\ m.CurrentState # "Loading"]_vars

\* the texts of the failures that are no transport failures
FailureTexts == {ErrorText(ErrNoConn), ErrorText(ErrNum(<<"x">>))}

\* C17: a command result with a failure that is no transport failure, under
\* every operation tag, puts the session in Output showing the text of the
\* failure, starts no connect attempt and no timer, and starts no command
C17_FailureShownInPlace ==
  [][\A i \in 1..Len(tasks) :
       Delivers(i) /\ last'.type = "result" /\ last'.err \in {"NoConn", "NumError"}
         => /\ m'.CurrentState = "Output" /\ m'.Output \in FailureTexts
            /\ dials' = dials /\ timers' = timers
            /\ tasks' = RemoveAt(tasks, i)]_vars

\* C18: no step ends the process because of the bytes of a reply
C18_NoReplyCrashes ==
  [][~(\E i \in 1..Len(tasks) : ReadPanics(i) \/ ScanPanics(i))]_vars

\* C28: in Loading, Update answers every key but ctrl+c with the model as it
\* is and no command; and a step that takes the session out of Loading is the
\* handling of a connection result or of a command result
C28_LoadingIgnoresKeys ==
  [][m.CurrentState = "Loading"
       => /\ \A k \in Keys \ {"ctrl+c"} : Update(m, KeyMsg(k, 0)) = Ret(m, NoCmd)
          /\ m'.CurrentState # "Loading"
               => DialSucceeds \/ (\E i \in 1..Len(tasks) : Delivers(i))]_vars

\* the session waits in Loading for the reply to a command started with enter,
\* on a connection, and is left there by enter pressed again
C28_Witness ==
  /\ Alive /\ m.CurrentState = "Loading" /\ nconn >= 1 /\ Len(tasks) = 1
  /\ last.type = "key" /\ last.key = "enter"
  /\ Update(m, KeyMsg("enter", 0)) = Ret(m, NoCmd)

\* C29: a step that changes ActiveKey, ActiveField or ActiveValue is enter
\* pressed in InputKey, InputField, InputValue, FieldSelect or Browser, or d
\* pressed in FieldSelect or Browser; so no esc, no reply, no connection
\* result and no tick changes any of them
C29_ActiveValuesKept ==
  [][<<m'.ActiveKey, m'.ActiveField, m'.ActiveValue>> # <<m.ActiveKey, m.ActiveField, m.ActiveValue>>
       => \/ /\ m.CurrentState \in {"InputKey", "InputField", "InputValue", "FieldSelect", "Browser"}
             /\ \E sel \in Cursors(m) : KeyPress("enter", sel)
          \/ /\ m.CurrentState \in {"FieldSelect", "Browser"}
             /\ \E sel \in Cursors(m) : KeyPress("d", sel)]_vars

\* esc has been pressed in an input state with a key stored: the key is kept
C29_Witness ==
  /\ Alive /\ last.type = "key" /\ last.key = "esc" /\ m.CurrentState = "Menu"
  /\ m.ActiveKey # <<>> /\ m.SelectedOp = "SET"

\* C32: in the flow Menu, HGET, InputKey: enter sends HKEYS of the key typed,
\* and an array reply to that command, handled under the tag HGET the menu
\* set, brings the session to FieldSelect with the strings of the array as the
\* field list
C32_MenuHashFlow ==
  [][/\ m.CurrentState = "InputKey" /\ m.SelectedOp = "HGET" /\ KeyPress("enter", 0)
          => tasks' = Append(tasks, NewTask(sendRedisCmd(m.Conn, "HKEYS", <<m.Input>>)))
     /\ \A i \in 1..Len(tasks) :
          /\ SendResult(i) /\ tasks[i].Name = "HKEYS" /\ m.SelectedOp = "HGET"
          /\ TaskReply(i).st = "ok" /\ TaskReply(i).v.t = "[]any"
          => /\ m'.CurrentState = "FieldSelect"
             /\ m'.FieldsList = HashItems(TaskReply(i).v.a)]_vars

\* C34: a connection made while the session is not in Loading leaves
\* CurrentState as it is
C34_ConnectionKeepsState ==
  [][DialSucceeds /\ m.CurrentState # "Loading" => m'.CurrentState = m.CurrentState]_vars

\* C37: while the scan of an EXPLORE selected without a connection is under
\* way no step crashes the process, and the step that ends the scan is the
\* handling of a command result that carries an error
C37_ExploreWithoutConnection ==
  [][\A i \in 1..Len(tasks) :
       tasks[i].kind = "scan" /\ tasks[i].conn = 0
         => /\ running' # "crashed"
            /\ running' = "running" /\ tasks' = RemoveAt(tasks, i)
                 => last'.type = "result" /\ last'.err # ""]_vars

\* the tags under which Output shows a value that can be edited, with the tag
\* of the write that stores it
EditTag(op) ==
  CASE op = "GET" -> "SET"
    [] op = "HGET" -> "HSET"
    [] op = "EXPLORE_LIST" -> "LSET"
    [] OTHER -> ""

\* C38: in every Output state e gives InputValue, seeded with the text shown,
\* under the tags GET, HGET and EXPLORE_LIST, which become SET, HSET and LSET;
\* under every other tag e leaves the session as it is
C38_EditOnlyValues ==
  Alive /\ m.CurrentState = "Output"
    => Update(m, KeyMsg("e", 0))
         = IF EditTag(m.SelectedOp) # ""
           THEN Ret([m EXCEPT !.Input = m.Output, !.SelectedOp = EditTag(m.SelectedOp),
                              !.CurrentState = "InputValue"], NoCmd)
           ELSE Ret(m, NoCmd)

\* the state SpecEarly starts from, but for the server
EarlyStartReached ==
  /\ m = earlyModel /\ tasks = <<NewTask(sendRedisCmd(1, "GET", <<<<>>>>))>>
  /\ dials = 0 /\ timers = 0 /\ nconn = 1 /\ running = "running" /\ issued = 2
  /\ last = [type |-> "result", key |-> "", err |-> "NoConn", res |-> "nil", wire |-> "",
             op |-> "GET", from |-> "Loading"]
  /\ conns = [c \in 1..MaxConns |-> [rx |-> <<>>, eof |-> FALSE]]

----------------------------------------------------------------------------
(* Properties of the session from the key browser on, checked under SpecBrowser *)

\* the user presses k
KeyStep(k) == \E sel \in CursorsFor(k, m) : KeyPress(k, sel)

DeletedKeyText(mm) ==
  <<"D", "e", "l", "e", "t", "e", "d", " ", "K", "e", "y", ":", " ">> \o mm.ActiveKey

\* C14: from Browser with PreviousState Menu: 'd' on a key gives Confirmation
\* with tag DEL and PreviousState Browser; 'y' sends DEL for that key and
\* keeps PreviousState; the reply to DEL starts a key scan and keeps
\* PreviousState; the result of the scan gives Browser; PreviousState is never
\* Confirmation; enter on a key records Browser, no reply changes that, and
\* esc in Output goes to PreviousState
C14_DeleteKeepsHistory ==
  [][/\ m'.PreviousState # "Confirmation"
     /\ m.CurrentState = "Browser" /\ KeyStep("d") /\ m' # m
          => /\ m'.CurrentState = "Confirmation" /\ m'.SelectedOp = "DEL"
             /\ m'.PreviousState = "Browser" /\ tasks' = tasks
             /\ \E j \in 1..Len(m.KeyList) : m'.ActiveKey = m.KeyList[j].title
     /\ m.CurrentState = "Confirmation" /\ m.PreviousState = "Browser" /\ KeyStep("y")
          => /\ m'.CurrentState = "Loading" /\ m'.PreviousState = "Browser"
             /\ tasks' = Append(tasks, NewTask(sendRedisCmd(m.Conn, "DEL", <<m.ActiveKey>>)))
     /\ m.SelectedOp = "DEL" /\ (\E i \in 1..Len(tasks) : SendResult(i))
          => /\ m'.CurrentState = "Loading" /\ m'.PreviousState = m.PreviousState
             /\ m'.Output = DeletedKeyText(m)
             /\ tasks' = <<NewTask(scanRedisKeys(m.Conn))>>
     /\ m.SelectedOp = "EXPLORE" /\ (\E i \in 1..Len(tasks) : ScanResult(i))
          => m'.CurrentState = "Browser" /\ m'.PreviousState = m.PreviousState
     /\ m.CurrentState = "Browser" /\ KeyStep("enter") /\ m' # m
          => m'.CurrentState = "Loading" /\ m'.PreviousState = "Browser"
     /\ (\E i \in 1..Len(tasks) : SendResult(i)) => m'.PreviousState = m.PreviousState
     /\ m.CurrentState = "Output" /\ KeyStep("esc")
          => m'.CurrentState = m.PreviousState]_vars

\* the key list is shown again after a confirmed DEL: Browser, PreviousState
\* Browser, the deletion message still in Output
C14_Witness ==
  /\ Alive /\ last.type = "result" /\ last.op = "EXPLORE"
  /\ m.CurrentState = "Browser" /\ m.PreviousState = "Browser"
  /\ m.Output = DeletedKeyText(m) /\ m.KeyList # <<>> /\ tasks = <<>>

\* the key lists the replies to SCAN carry
ScannedKeys ==
  {ScanKeys([keys |-> <<>>], ReadResp(ReplyScanEnd, FALSE).v),
   ScanKeys([keys |-> ScanKeys([keys |-> <<>>], ReadResp(ReplyScanMore, FALSE).v)],
            ReadResp(ReplyScanEnd, FALSE).v)}

\* C15: with a server that answers DEL, HDEL and LREM with an integer and
\* the refresh with an array, the result of the refresh gives Browser (after
\* DEL) or FieldSelect (after HDEL, LREM) showing the entries of that array
C15_RefreshShown ==
  Alive /\ server = "redis" /\ last.type = "result" /\ last.from = "Loading"
        /\ m.Output \in {DeletedKeyText(m),
                         <<"D", "e", "l", "e", "t", "e", "d", " ", "H", "a", "s", "h", " ",
                           "K", "e", "y", ":", " ">> \o m.ActiveKey,
                         <<"R", "e", "m", "o", "v", "e", "d", " ", "e", "l", "e", "m", "e",
                           "n", "t", " ", "f", "r", "o", "m", " ", "l", "i", "s", "t",
                           ":", " ">> \o m.ActiveKey}
    => CASE last.op = "EXPLORE" -> m.CurrentState = "Browser" /\ m.KeyList \in ScannedKeys
         [] last.op = "HKEYS" ->
              /\ m.CurrentState = "FieldSelect"
              /\ m.FieldsList = HashItems(ReadResp(ReplyArray, FALSE).v.a)
         [] last.op = "LRANGE" ->
              /\ m.CurrentState = "FieldSelect"
              /\ m.FieldsList = IndexedItems(ReadResp(ReplyArray, FALSE).v.a)
         [] OTHER -> TRUE

\* the command that reads a key of the given type
ReadCommand(conn, key, type) ==
  CASE type = TypeString -> sendRedisCmd(conn, "GET", <<key>>)
    [] type = TypeHash -> sendRedisCmd(conn, "HKEYS", <<key>>)
    [] type = TypeList -> sendRedisCmd(conn, "LRANGE", <<key, <<"0">>, <<"-", "1">>>>)
    [] type = TypeSet -> sendRedisCmd(conn, "SMEMBERS", <<key>>)
    [] OTHER -> sendRedisCmd(conn, "ZRANGE",
                  <<key, <<"0">>, <<"-", "1">>,
                    <<"W", "I", "T", "H", "S", "C", "O", "R", "E", "S">>>>)

TypeNames == {TypeString, TypeHash, TypeList, TypeSet, TypeZset}

\* C23: the reply 'string', 'hash', 'list', 'set' or 'zset' to the TYPE probe,
\* handled in Loading, starts exactly the one command that reads ActiveKey
\* (GET, HKEYS, LRANGE 0 -1, SMEMBERS, ZRANGE 0 -1 WITHSCORES), makes its name
\* the tag, changes nothing else of the session, which stays in Loading with
\* PreviousState Browser
C23_TypeStartsRead ==
  [][\A i \in 1..Len(tasks) :
       /\ SendResult(i) /\ m.SelectedOp = "CHECK_TYPE" /\ m.CurrentState = "Loading"
       /\ TaskReply(i).st = "ok" /\ TaskReply(i).v.t = "string"
       /\ TaskReply(i).v.s \in TypeNames
       => LET cmd == ReadCommand(m.Conn, m.ActiveKey, TaskReply(i).v.s)
          IN  /\ m' = [m EXCEPT !.SelectedOp = cmd.Name]
              /\ m'.CurrentState = "Loading" /\ m'.PreviousState = "Browser"
              /\ tasks' = Append(RemoveAt(tasks, i), NewTask(cmd))
              /\ dials' = dials /\ timers' = timers]_vars

\* the TYPE probe of a key has been answered 'zset': ZRANGE with scores is
\* the one command under way
C23_Witness ==
  /\ Alive /\ last.type = "result" /\ last.op = "CHECK_TYPE" /\ last.res = "string"
  /\ m.CurrentState = "Loading" /\ m.PreviousState = "Browser" /\ m.SelectedOp = "ZRANGE"
  /\ tasks = <<NewTask(ReadCommand(m.Conn, m.ActiveKey, TypeZset))>>
  /\ m.ActiveKey # <<>>

\* the tags under which InputValue sends a write
WriteTags == {"SET", "HSET", "RPUSH", "LSET"}

\* the write of tag op with the key, field and index of mm and the value typed
WriteCommand(mm, op, value) ==
  CASE op = "HSET" -> sendRedisCmd(mm.Conn, "HSET", <<mm.ActiveKey, mm.ActiveField, value>>)
    [] op = "LSET" -> sendRedisCmd(mm.Conn, "LSET", <<mm.ActiveKey, Itoa(mm.ActiveIndex), value>>)
    [] OTHER -> sendRedisCmd(mm.Conn, op, <<mm.ActiveKey, value>>)

\* C24: in every InputValue state, under each of the tags SET, HSET, RPUSH
\* and LSET, enter stores the buffer as ActiveValue, clears the buffer, gives
\* Loading and returns the one command SET(key, value), HSET(key, field,
\* value), RPUSH(key, value) or LSET(key, index, value); under LSET with the
\* elements of a list shown, ActiveField and ActiveIndex are the title and
\* the reply position (from 0) of one entry of the field list
C24_ConfirmSendsWrite ==
  Alive /\ m.CurrentState = "InputValue"
    => /\ \A op \in WriteTags :
            LET mm == [m EXCEPT !.SelectedOp = op]
            IN  Update(mm, KeyMsg("enter", 0))
                  = Ret([mm EXCEPT !.ActiveValue = m.Input, !.Input = <<>>,
                                   !.CurrentState = "Loading",
                                   !.PreviousState = "InputValue"],
                        WriteCommand(mm, op, m.Input))
       /\ m.SelectedOp = "LSET" /\ m.FieldsList = IndexedItems(ReadResp(ReplyArray, FALSE).v.a)
            => \E j \in 1..Len(m.FieldsList) :
                 m.ActiveField = m.FieldsList[j].title /\ m.ActiveIndex = j - 1

\* the second element of a list has been edited: LSET with index 1 is under way
C24_Witness ==
  /\ Alive /\ last.type = "key" /\ last.key = "enter"
  /\ m.CurrentState = "Loading" /\ m.PreviousState = "InputValue" /\ m.SelectedOp = "LSET"
  /\ m.ActiveIndex = 1 /\ m.Input = <<>> /\ m.ActiveValue # <<>>
  /\ tasks = <<NewTask(sendRedisCmd(m.Conn, "LSET", <<m.ActiveKey, <<"1">>, m.ActiveValue>>))>>

\* the reply task i is about to read is decoded without error
ReadsValue(i) == TaskReply(i).st = "ok"

\* C25: the steps of exploring down to a hash field. Enter on EXPLORE in Menu
\* starts the key scan; the result of the scan gives Browser with the keys
\* gathered; enter on a key starts TYPE of that key; the reply 'hash' starts
\* HKEYS of it; the array reply to HKEYS gives FieldSelect listing its
\* strings; enter on a field starts HGET of the key and that field; the bulk
\* reply to HGET gives Output showing it. Each step starts the one command
\* named and no other, and never is more than one command under way
C25_ExploreToHashField ==
  [][/\ Len(tasks') <= 1
     /\ \A sel \in Cursors(m) :
          m.CurrentState = "Menu" /\ MenuItems[sel] = "EXPLORE" /\ KeyPress("enter", sel)
          => /\ m'.CurrentState = "Loading" /\ m'.SelectedOp = "EXPLORE"
             /\ tasks' = <<NewTask(scanRedisKeys(m.Conn))>>
     /\ \A i \in 1..Len(tasks) :
          m.SelectedOp = "EXPLORE" /\ ScanResult(i) /\ ReadsValue(i)
          => /\ m'.CurrentState = "Browser" /\ tasks' = <<>>
             /\ m'.KeyList = ScanKeys(tasks[i], TaskReply(i).v)
     /\ \A sel \in Cursors(m) :
          m.CurrentState = "Browser" /\ m.KeyList # <<>> /\ KeyPress("enter", sel)
          => /\ m'.CurrentState = "Loading" /\ m'.SelectedOp = "CHECK_TYPE"
             /\ m'.ActiveKey = m.KeyList[sel].title
             /\ tasks' = <<NewTask(sendRedisCmd(m.Conn, "TYPE", <<m.KeyList[sel].title>>))>>
     /\ \A i \in 1..Len(tasks) :
          /\ m.SelectedOp = "CHECK_TYPE" /\ m.CurrentState = "Loading"
          /\ SendResult(i) /\ ReadsValue(i) /\ TaskReply(i).v = StrV(TypeHash)
          => /\ m'.CurrentState = "Loading" /\ m'.SelectedOp = "HKEYS"
             /\ tasks' = <<NewTask(sendRedisCmd(m.Conn, "HKEYS", <<m.ActiveKey>>))>>
     /\ \A i \in 1..Len(tasks) :
          /\ m.SelectedOp = "HKEYS" /\ SendResult(i) /\ ReadsValue(i)
          /\ TaskReply(i).v.t = "[]any"
          => /\ m'.CurrentState = "FieldSelect" /\ tasks' = <<>>
             /\ m'.FieldsList = HashItems(TaskReply(i).v.a)
     /\ \A sel \in Cursors(m) :
          /\ m.CurrentState = "FieldSelect" /\ m.SelectedOp = "HKEYS" /\ m.FieldsList # <<>>
          /\ KeyPress("enter", sel)
          => /\ m'.CurrentState = "Loading" /\ m'.SelectedOp = "HGET"
             /\ tasks' = <<NewTask(sendRedisCmd(m.Conn, "HGET",
                                      <<m.ActiveKey, m.FieldsList[sel].title>>))>>
     /\ \A i \in 1..Len(tasks) :
          /\ m.SelectedOp = "HGET" /\ SendResult(i) /\ ReadsValue(i)
          /\ TaskReply(i).v.t = "string"
          => /\ m'.CurrentState = "Output" /\ m'.Output = TaskReply(i).v.s
             /\ tasks' = <<>>]_vars

\* the whole walk in one session: from Menu the keys were scanned in two
\* batches, a key was probed and found a hash, its fields were listed, one was
\* read, and Output shows the value
C25_Witness ==
  /\ Alive /\ server = "redis" /\ issued = 3
  /\ last.type = "result" /\ last.op = "HGET" /\ last.wire = "$"
  /\ m.CurrentState = "Output" /\ m.PreviousState = "FieldSelect" /\ m.Output = <<"a">>
  /\ m.KeyList = <<ListItem(0, <<"b">>, <<"k", "e", "y">>), ListItem(0, <<"a">>, <<"k", "e", "y">>)>>
  /\ m.FieldsList = HashItems(ReadResp(ReplyArray, FALSE).v.a)
  /\ m.ActiveKey = <<"b">> /\ m.ActiveField = <<"a">> /\ tasks = <<>>

\* task i is about to read a reply to SCAN of the shape Redis gives: an array
\* of a cursor and an array of keys
ReadsBatch(i) ==
  /\ TaskReply(i).st = "ok" /\ TaskReply(i).v.t = "[]any" /\ Len(TaskReply(i).v.a) = 2
  /\ TaskReply(i).v.a[1].t = "string" /\ TaskReply(i).v.a[2].t = "[]any"

\* the keys of such a reply, as list items
Batch(v) == [j \in 1..Len(v.a[2].a) |-> ListItem(0, v.a[2].a[j].s, <<"k", "e", "y">>)]

\* C26: a key scan starts with 'SCAN 0 MATCH *' and no keys; after a reply
\* with another cursor than '0' it sends SCAN with that cursor and holds the
\* keys so far followed by the keys of the reply; it delivers its result after
\* a reply with cursor '0' and after no other, and the list delivered is the
\* keys so far followed by the keys of that reply
C26_ScanFollowsCursor ==
  [][/\ \A j \in 1..Len(tasks') :
          /\ tasks'[j].kind = "scan" /\ tasks'[j].phase = "write"
          /\ tasks'[j] \notin Range(tasks)
          /\ ~(\E i \in 1..Len(tasks) : ScanAgain(i))
          => /\ tasks'[j].keys = <<>>
             /\ ScanRequest(tasks'[j]).Args = <<<<"0">>, <<"M", "A", "T", "C", "H">>, <<"*">>>>
     /\ \A i \in 1..Len(tasks) :
          ScanAgain(i) /\ ReadsBatch(i)
          => /\ TaskReply(i).v.a[1].s # <<"0">>
             /\ tasks'[i].phase = "write"
             /\ ScanRequest(tasks'[i]).Args[1] = TaskReply(i).v.a[1].s
             /\ tasks'[i].keys = tasks[i].keys \o Batch(TaskReply(i).v)
     /\ \A i \in 1..Len(tasks) :
          ScanResult(i) /\ ReadsBatch(i)
          => /\ TaskReply(i).v.a[1].s = <<"0">>
             /\ Len(tasks') = Len(tasks) - 1
             /\ m.SelectedOp = "EXPLORE"
                  => m'.KeyList = tasks[i].keys \o Batch(TaskReply(i).v)]_vars

\* a scan of two replies has delivered the keys of the first followed by the
\* keys of the second
C26_Witness ==
  /\ Alive /\ last.type = "result" /\ last.op = "EXPLORE" /\ last.res = "[]list.Item"
  /\ m.CurrentState = "Browser" /\ tasks = <<>>
  /\ m.KeyList = Batch(ReadResp(ReplyScanMore, FALSE).v) \o Batch(ReadResp(ReplyScanEnd, FALSE).v)
  /\ Len(m.KeyList) = 2

\* C27: with a server that answers every command with bulk strings and
\* arrays, every task under way comes to an end (it has delivered its result
\* event, or the program has ended)
C27_EveryTaskDelivers ==
  (server = "data" /\ tasks # <<>>) ~> (tasks = <<>>)

\* C30: in every FieldSelect state, for every entry of the field list: under
\* each of the tags HGET, HKEYS and EXPLORE enter stores the entry, makes the
\* tag HGET, gives Loading and returns the one command HGET(ActiveKey, title of
\* the entry); under EXPLORE_LIST enter stores the entry, gives Output showing
\* its title and returns no command
C30_ConfirmOnField ==
  Alive /\ m.CurrentState = "FieldSelect"
    => \A sel \in 1..Len(m.FieldsList) :
         LET entry == m.FieldsList[sel]
             stored == [m EXCEPT !.ActiveField = entry.title, !.ActiveIndex = entry.index]
         IN  /\ \A op \in {"HGET", "HKEYS", "EXPLORE"} :
                  Update([m EXCEPT !.SelectedOp = op], KeyMsg("enter", sel))
                    = Ret([stored EXCEPT !.SelectedOp = "HGET", !.CurrentState = "Loading",
                                         !.PreviousState = "FieldSelect"],
                          sendRedisCmd(m.Conn, "HGET", <<m.ActiveKey, entry.title>>))
             /\ Update([m EXCEPT !.SelectedOp = "EXPLORE_LIST"], KeyMsg("enter", sel))
                  = Ret([stored EXCEPT !.SelectedOp = "EXPLORE_LIST", !.Output = entry.title,
                                       !.CurrentState = "Output"],
                        NoCmd)

\* enter on the second element of a list: Output shows it and no command is
\* under way
C30_Witness ==
  /\ Alive /\ last.type = "key" /\ last.key = "enter"
  /\ m.CurrentState = "Output" /\ m.SelectedOp = "EXPLORE_LIST"
  /\ Len(m.FieldsList) = 2 /\ m.ActiveField = m.FieldsList[2].title
  /\ m.Output = m.ActiveField /\ m.ActiveIndex = 1 /\ tasks = <<>>

\* replies to ZRANGE: arrays of up to three strings
ZStrings == {<<"a">>, <<"7">>}
ZReplies == UNION {[1..n -> ZStrings] : n \in 0..3}

\* the title and the description the claim gives entry j of the list for reply v
ZTitle(v, j) == v[2 * j - 1]
ZDesc(v, j) ==
  <<"S", "c", "o", "r", "e", ":", " ">> \o
    (IF 2 * j <= Len(v) THEN v[2 * j] ELSE <<"u", "n", "k", "n", "o", "w", "n">>)

\* C31: whenever the tag is ZRANGE, a reply that is an array of n strings gives
\* a field list of ceil(n/2) entries, entry j titled with the member at
\* position 2j of the reply (counting from 0 for the first pair) and described
\* by 'Score: ' and the string after it, or 'Score: unknown' when the reply
\* ends with the member; the tag becomes EXPLORE_LIST and the state FieldSelect
C31_SortedSetListed ==
  Alive /\ m.SelectedOp = "ZRANGE"
    => \A v \in ZReplies :
         LET r == Update(m, RedisResultMsg(ArrV(StrVs(v)), NoErr))
         IN  /\ Len(r.m.FieldsList) = (Len(v) + 1) \div 2
             /\ \A j \in 1..Len(r.m.FieldsList) :
                  /\ r.m.FieldsList[j].title = ZTitle(v, j)
                  /\ r.m.FieldsList[j].desc = ZDesc(v, j)
             /\ r.m.SelectedOp = "EXPLORE_LIST"
             /\ r.m.CurrentState = "FieldSelect"
             /\ r.cmd = NoCmd

\* a ZRANGE reply of one string, a member without its score, has been handled:
\* the list shows the member with the score unknown
C31_Witness ==
  /\ Alive /\ last.type = "result" /\ last.op = "ZRANGE" /\ last.res = "[]any"
  /\ m.CurrentState = "FieldSelect" /\ m.SelectedOp = "EXPLORE_LIST"
  /\ Len(m.FieldsList) = 1
  /\ m.FieldsList[1].title = <<"7">>
  /\ m.FieldsList[1].desc = <<"S", "c", "o", "r", "e", ":", " ", "u", "n", "k", "n", "o", "w", "n">>

\* the values of AppState
AppStates ==
  {"Menu", "InputKey", "InputField", "FieldSelect", "InputValue", "Output", "Browser",
   "Loading", "Confirmation"}

\* the model after esc has been pressed n times
RECURSIVE AfterEsc(_, _)
AfterEsc(mm, n) ==
  IF n = 0 THEN mm ELSE AfterEsc(Update(mm, KeyMsg("esc", 0)).m, n - 1)

\* C35: in every state but Loading, esc pressed again and again brings the
\* session to Menu within as many presses as there are states; and in
\* FieldSelect and in Output PreviousState is another state than the current
\* one, so that esc there leaves the state
C35_EscReachesMenu ==
  Alive /\ m.CurrentState # "Loading"
    => /\ \E n \in 0..Cardinality(AppStates) : AfterEsc(m, n).CurrentState = "Menu"
       /\ m.CurrentState \in {"FieldSelect", "Output"} => m.PreviousState # m.CurrentState

\* the entry shows a hash field: the HKEYS case made it
ShowsHashField(entry) == entry.desc = <<"H", "a", "s", "h", " ", "F", "i", "e", "l", "d">>

\* C33: in every FieldSelect state, whatever was pressed before, d on an entry
\* queues HDEL when the entry is a hash field and LREM when it is an element
\* of a list, a set or a sorted set, and enter on an entry does what it does
\* under the tag the list was filled with (HKEYS for hash fields,
\* EXPLORE_LIST for elements)
C33_DeleteMatchesList ==
  Alive /\ m.CurrentState = "FieldSelect"
    => \A sel \in 1..Len(m.FieldsList) :
         LET filledAs == IF ShowsHashField(m.FieldsList[sel]) THEN "HKEYS" ELSE "EXPLORE_LIST"
             asFilled == [m EXCEPT !.SelectedOp = filledAs]
         IN  /\ Update(m, KeyMsg("d", sel)).m.SelectedOp
                  = IF ShowsHashField(m.FieldsList[sel]) THEN "HDEL" ELSE "LREM"
             /\ Update(m, KeyMsg("enter", sel)) = Update(asFilled, KeyMsg("enter", sel))

----------------------------------------------------------------------------
(* Properties of the session after an early command, checked under SpecEarly *)

\* C36: PreviousState is never Loading and never Confirmation
C36_PreviousStateInteractive ==
  Alive => m.PreviousState \notin {"Loading", "Confirmation"}

\* C39: at most one connect attempt or retry timer is outstanding, and a step
\* that starts a connect attempt is a tick or the transport failure of a
\* command, taken while no other attempt and no timer is pending
C39_OneConnectOutstanding ==
  [][/\ dials' + timers' <= 1
     /\ dials' > dials => (Tick \/ TransportFailure) /\ dials + timers = 0]_vars

----------------------------------------------------------------------------
(* Properties of the codec, checked under SpecCodec *)

\* the bytes of buf after its first LF
RECURSIVE AfterLine(_)
AfterLine(buf) ==
  IF buf = <<>> THEN <<>>
  ELSE IF Head(buf) = LF THEN Tail(buf) ELSE AfterLine(Tail(buf))

\* the bytes of buf before its first CR
RECURSIVE LineText(_)
LineText(buf) ==
  IF buf = <<>> \/ Head(buf) = CR THEN <<>> ELSE <<Head(buf)>> \o LineText(Tail(buf))

\* C6: decoding ":<n>\r\n" consumes the whole line and returns the number n
\* as a value that is no string and no array
C6_IntegerDecoded ==
  \A i \in 1..Len(decoded) :
    LET d == decoded[i]
    IN  d.in # <<>> /\ Head(d.in) = ":" /\ LF \in Range(d.in)
          => /\ d.out.st = "ok"
             /\ d.out.rest = AfterLine(d.in)
             /\ d.out.v.t = "int"
             /\ d.out.v.n = Atoi(LineText(Tail(d.in))).n

\* seq begins with the bytes of r
StartsWith(seq, r) == Len(seq) >= Len(r) /\ SubSeq(seq, 1, Len(r)) = r

\* C19: decoding a reply whose first byte is none of '+', '-', ':', '$', '*'
\* returns an error that is no transport failure, never a value
C19_UnknownPrefixFails ==
  \A i \in 1..Len(decoded) :
    LET d == decoded[i]
    IN  d.in # <<>> /\ Head(d.in) \notin {"+", "-", ":", "$", "*"}
          => d.out.st = "err" /\ d.out.err.kind \notin {"EOF", "UnexpectedEOF", "NetError"}

\* replies with a length or a count that is no number
BadLengths == {ReplyBadLength, ReplyBadCount, ReplyNestedBadLength}

\* C20: decoding a reply whose bulk length or array count is no number, at
\* top level or inside an array, returns the error of the conversion and
\* neither a value nor a panic, and has read the reply to the end of the line
C20_BadLengthFails ==
  \A i \in 1..Len(decoded) : \A r \in BadLengths :
    LET d == decoded[i]
    IN  StartsWith(d.in, r)
          => /\ d.out.st = "err"
             /\ d.out.err = ErrNum(<<"x">>)
             /\ d.out.rest = SubSeq(d.in, Len(r) + 1, Len(d.in))

\* a bad length inside an array has been decoded, after another reply
C20_Witness ==
  /\ Len(decoded) = 2
  /\ decoded[1].out.st = "ok"
  /\ StartsWith(decoded[2].in, ReplyNestedBadLength)
  /\ decoded[2].out.st = "err"

\* the null replies, the empty array and the non-null bulk strings
Distinguished ==
  {ReplyNullBulk, ReplyNullArray, ReplyEmptyArray, ReplyBulk, ReplyNilTextBulk}

\* C21: the values decoded from two different replies among '$-1', '*-1',
\* '*0' and the non-null bulk strings are different
C21_NullsDistinguished ==
  \A i, j \in 1..Len(decoded) :
    \A r, q \in Distinguished :
      /\ r # q
      /\ StartsWith(decoded[i].in, r) /\ StartsWith(decoded[j].in, q)
      => /\ decoded[i].out.st = "ok" /\ decoded[j].out.st = "ok"
         /\ decoded[i].out.v # decoded[j].out.v

----------------------------------------------------------------------------
(* Properties of the round trip, checked under SpecEcho *)

\* C22: the header of the bytes of a command counts the name and the
\* arguments, and decoding the bytes gives the array of the name and the
\* arguments in order, every byte of every element kept, with no byte left
C22_RoundTrip ==
  tasks[1].phase = "read"
    => /\ decoded = <<>> =>
            /\ Head(stream) = "*"
            /\ LineText(Tail(stream)) = Itoa(Len(tasks[1].Args) + 1)
       /\ decoded # <<>> =>
            decoded[1].out = ROk(ArrV(<<StrV(tasks[1].Name)>> \o StrVs(tasks[1].Args)), <<>>)

\* a command whose argument holds CR and LF and whose name has two bytes for
\* one character has been encoded and decoded
C22_Witness ==
  /\ tasks[1].Name = Eacute /\ tasks[1].Args = <<<<CR, LF>>, <<>>>>
  /\ decoded # <<>> /\ decoded[1].out.st = "ok" /\ stream = <<>>

----------------------------------------------------------------------------
(* Lengths below -1, checked under SpecCodec *)

NegativeLengths == {ReplyNegativeLength, ReplyNegativeCount}

\* C40: decoding a reply whose bulk length or array count is a number below
\* -1 returns an error: neither a value nor a panic
C40_NegativeLengthFails ==
  \A i \in 1..Len(decoded) : \A r \in NegativeLengths :
    StartsWith(decoded[i].in, r) => decoded[i].out.st = "err"

====
